---- MODULE Spec2Model ----
(***************************************************************************)
(* MediaCore: the rate-limited provider client, the resumable crawl, the   *)
(* bulk IMDb import, the hybrid discovery cache and the filter fan-out.    *)
(* Each component has its own variables and its own specification; the     *)
(* variables of the other components stay at their initial values.         *)
(***************************************************************************)
EXTENDS Integers, Sequences, FiniteSets, TLC

VARIABLES
    \* ---- RateLimiter (api-central/tmdb_client.py) ----
    now,            \* the event loop's clock, in ticks
    request_times,  \* RateLimiter.request_times
    lock,           \* holder of RateLimiter._lock, or NoCaller
    rlpc,           \* each caller's position in acquire()
    wake,           \* each sleeping caller's wake-up time
    admitted,       \* history: the timestamp recorded by every admitted acquire()
    \* ---- TMDBClient._request (api-central/tmdb_client.py) ----
    session,        \* whether TMDBClient.session is set (__aenter__ has run)
    rq,             \* each caller's _request call: position, retries, attempts, result
    http,           \* history: the number of HTTP attempts started
    \* ---- Crawl engine (api-central/main.py, tmdb_importer.py, database.py) ----
    cursor,         \* the sync_progress row of category "movie", or NoRow
    movies,         \* identifiers of the rows of the movies table
    provTotal,      \* the provider's current total_pages
    faults,         \* provider / storage faults injected so far
    mode,           \* which crawl runs: "idle", "queue" (fetch_movies), "batch" (import_media)
    ppc,            \* position of the producer / of import_media
    start_page,     \* local start_page
    total_pages,    \* local total_pages (queue), total_pages_discovered (batch)
    page,           \* loop variable page (queue), current_page (batch)
    pending,        \* results of the current page not yet put (queue); fetched records (batch)
    queue,          \* asyncio.Queue contents
    unfinished,     \* asyncio.Queue._unfinished_tasks
    wpc,            \* position of each worker task
    witem,          \* the item each worker holds
    max_pages,      \* TMDBImporter.max_pages of the running batch crawl
    batch_end,      \* local batch_end
    pages_per_batch,\* TMDBImporter.pages_per_batch of the running batch crawl
    reqPages,       \* history: the discovery pages requested by the last step
    requested,      \* history: the discovery pages the current run has requested so far
    served,         \* history: the records fetched by the last batch-mode run, until a run starts
    \* ---- Bulk IMDb importer (api-central/imdb_importer.py) ----
    content,        \* the remote datasets: name -> lines (header first), each line its fields
    disk,           \* names of the dataset files present in DATA_DIR
    tabs,           \* committed rows of each imdb_* table, in rowid order
    exists,         \* names of the imdb_* tables that exist
    ipc,            \* position of pipeline()
    files,          \* pipeline's local `files` (names)
    valid_tconsts,  \* pipeline's local valid_tconsts
    ran,            \* history: the phases this pipeline run has executed
    dlFails,        \* download failures injected so far
    prevRun,        \* history: the files and the tables at the end of the previous run
    \* ---- Hybrid discovery cache (backend/services/local_discover.py) ----
    movie_rows,     \* the movies table: id -> the imdb_id of every committed row with that id
    writer,         \* the connection holding the database write lock, or NoWriter
    rating_rows,    \* the tconsts of the rating query's result, in its order
    tmdbOf,         \* the provider's /find answer: tconst -> provider id, 0 for no result
    sess,           \* each request's session and locals
    lookupFails,    \* failed provider lookups injected so far
    upserts,        \* crawler upserts so far
    \* ---- Filter fan-out (backend/services/filter_engine.py) ----
    fpc,            \* position of discover() / get_all_results()
    freq,           \* the call: entry point, watch_region and language values, limit
    combinations,   \* local `combinations` (one query on the single-value path)
    cpage,          \* each combination's next page, 0 when it has finished
    all_results,    \* each combination's collected results
    issued,         \* history: the native discover queries issued for each combination
    fout,           \* the results returned
    \* ---- Batch enrichment (api-central/tmdb_importer.py) ----
    max_workers,    \* TMDBImporter.max_workers
    light_mode,     \* TMDBImporter.light_mode
    semaphore,      \* the value of TMDBImporter.semaphore: the free permits
    epc,            \* position of each fetch_movie_data / fetch_tv_data call of the batch
    \* ---- Enrichment of a mixed list (backend/services/local_discover.py) ----
    mpc,            \* position of enrich_movies_with_ratings
    mrows,          \* the movies table: id -> imdb_id, NULL, or no row
    minp,           \* the list `movies` as it was passed in
    tmdb_to_imdb,   \* local dict tmdb_to_imdb
    new_mappings_to_cache,  \* local list new_mappings_to_cache
    mout,           \* the list returned
    \* ---- Filter translation (backend/services/filter_engine.py) ----
    filters,        \* parse_filters' argument `filters`
    operator,       \* parse_filters' argument `operator`
    params,         \* the dict parse_filters returns
    parsed,         \* whether parse_filters has returned
    \* ---- Re-sort of merged results (backend/services/filter_engine.py) ----
    media_type,     \* the media type of the call
    sort_by,        \* the requested sort option, "key.dir"
    merged_results, \* the merged list, sorted in place
    resorted,       \* whether _sort_results has returned
    \* ---- Scheduled list refresh (backend/services/scheduler.py) ----
    upc,            \* position of update_all_lists / update_list
    unow,           \* the time the tick read
    last_updated,   \* lists.last_updated, per list
    list_items,     \* the committed list_items rows, per list
    todo,           \* the lists the for loop has still to visit
    media_list,     \* the list update_list is working on
    session_new,    \* the rows in the session's open transaction
    before,         \* history: list_items when the tick started
    results_of,     \* history: what get_all_results returned, per list
    due,            \* history: the lists due when the tick started
    refreshed,      \* history: the lists committed in this tick
    failed_list     \* history: the list whose refresh raised

rlVars == <<now, request_times, lock, rlpc, wake, admitted>>
reqVars == <<session, rq, http>>

dbVars == <<cursor, movies>>
runVars == <<mode, ppc, start_page, total_pages, page, pending, queue, unfinished,
             wpc, witem, max_pages, batch_end, pages_per_batch>>
crawlVars == <<dbVars, provTotal, faults, runVars, reqPages, requested, served>>

imdbVars == <<content, disk, tabs, exists, ipc, files, valid_tconsts, ran, dlFails,
              prevRun>>

discVars == <<movie_rows, writer, rating_rows, tmdbOf, sess, lookupFails, upserts>>

fanVars == <<fpc, freq, combinations, cpage, all_results, issued, fout>>

enrVars == <<max_workers, light_mode, semaphore, epc>>

mixVars == <<mpc, mrows, minp, tmdb_to_imdb, new_mappings_to_cache, mout>>

parseVars == <<filters, operator, params, parsed>>

sortVars == <<media_type, sort_by, merged_results, resorted>>

refreshVars == <<upc, unow, last_updated, list_items, todo, media_list, session_new, before, results_of, due, refreshed, failed_list>>

vars == <<rlVars, reqVars, crawlVars, imdbVars, discVars, fanVars, enrVars, mixVars, parseVars, sortVars, refreshVars>>

\* What the steps of one component leave unchanged: the other components.
notClient == <<crawlVars, imdbVars, discVars, fanVars, enrVars, mixVars, parseVars, sortVars, refreshVars>>
notRL == <<reqVars, notClient>>
notCrawl == <<rlVars, reqVars, imdbVars, discVars, fanVars, enrVars, mixVars, parseVars, sortVars, refreshVars>>
notImdb == <<rlVars, reqVars, crawlVars, discVars, fanVars, enrVars, mixVars, parseVars, sortVars, refreshVars>>
notDisc == <<rlVars, reqVars, crawlVars, imdbVars, fanVars, enrVars, mixVars, parseVars, sortVars, refreshVars>>
notFan == <<rlVars, reqVars, crawlVars, imdbVars, discVars, enrVars, mixVars, parseVars, sortVars, refreshVars>>
notEnr == <<rlVars, reqVars, crawlVars, imdbVars, discVars, fanVars, mixVars, parseVars, sortVars, refreshVars>>
notMix == <<rlVars, reqVars, crawlVars, imdbVars, discVars, fanVars, enrVars, parseVars, sortVars, refreshVars>>
notParse == <<rlVars, reqVars, crawlVars, imdbVars, discVars, fanVars, enrVars, mixVars, sortVars, refreshVars>>
notSort == <<rlVars, reqVars, crawlVars, imdbVars, discVars, fanVars, enrVars, mixVars, parseVars, refreshVars>>
notRefresh == <<rlVars, reqVars, crawlVars, imdbVars, discVars, fanVars, enrVars, mixVars, parseVars, sortVars>>

----------------------------------------------------------------------------
\* Generic helpers

Min(a, b) == IF a <= b THEN a ELSE b
Max(a, b) == IF a >= b THEN a ELSE b

RECURSIVE SeqToSet(_)
SeqToSet(s) == IF s = <<>> THEN {} ELSE {Head(s)} \cup SeqToSet(Tail(s))

RECURSIVE SetToSeq(_)
\* The elements of a finite set of integers, in increasing order.
SetToSeq(S) ==
    IF S = {} THEN <<>>
    ELSE LET m == CHOOSE x \in S : \A y \in S : x <= y
         IN <<m>> \o SetToSeq(S \ {m})

RECURSIVE Filter(_, _)
\* [x for x in s if x \in keep]
Filter(s, keep) ==
    IF s = <<>> THEN <<>>
    ELSE IF Head(s) \in keep THEN <<Head(s)>> \o Filter(Tail(s), keep)
         ELSE Filter(Tail(s), keep)

----------------------------------------------------------------------------
\* RateLimiter

\* Bounds of the rate limiter model: the quota and the period are scaled down
\* from the configured 35 requests per 10 seconds, time is counted in ticks.
RATE_LIMIT_REQUESTS == 2
RATE_LIMIT_PERIOD == 3
SleepPad == 1
NumCallers == 2
MaxTime == 6

Callers == 1..NumCallers
NoCaller == 0

RECURSIVE Prune(_, _)
\* [t for t in self.request_times if now - t < self.period_seconds]
Prune(times, t0) ==
    IF times = <<>> THEN <<>>
    ELSE IF t0 - Head(times) < RATE_LIMIT_PERIOD
         THEN <<Head(times)>> \o Prune(Tail(times), t0)
         ELSE Prune(Tail(times), t0)

\* A mutant of HasSlot: off by one, admits one request too many.
HasSlotLoose(times) == Len(times) <= RATE_LIMIT_REQUESTS

\* len(self.request_times) < self.requests_per_period
HasSlot(times) == Len(times) < RATE_LIMIT_REQUESTS

\* wait_time = self.request_times[0] + self.period_seconds - now
WaitTime(times, t0) == times[1] + RATE_LIMIT_PERIOD - t0

RLStart ==
    /\ now = 0
    /\ request_times = <<>>
    /\ lock = NoCaller
    /\ rlpc = [c \in Callers |-> "idle"]
    /\ wake = [c \in Callers |-> 0]
    /\ admitted = <<>>

\* A task calls acquire() and reaches `async with self._lock`.
RLCall(c) ==
    /\ rlpc[c] = "idle"
    /\ rlpc' = [rlpc EXCEPT ![c] = "lock"]
    /\ UNCHANGED <<now, request_times, lock, wake, admitted, notRL>>

\* `async with self._lock`: entered when the lock is free.
RLLock(c) ==
    /\ rlpc[c] = "lock"
    /\ lock = NoCaller
    /\ lock' = c
    /\ rlpc' = [rlpc EXCEPT ![c] = "check"]
    /\ UNCHANGED <<now, request_times, wake, admitted, notRL>>

\* Leaving the `async with self._lock` block releases the lock, whether the
\* caller returns, retries or goes on to sleep; the sleep is after the block.
LockKeptAsleep(c, sleeps) == IF sleeps THEN c ELSE NoCaller
LockAfterBlock(c, sleeps) == NoCaller

\* The body of the lock: prune, then admit and record, or compute the wait;
\* leaving the block releases the lock.
RLCheck(c) ==
    /\ rlpc[c] = "check"
    /\ lock = c
    /\ LET kept == Prune(request_times, now) IN
         IF HasSlot(kept)
         THEN /\ request_times' = Append(kept, now)
              /\ admitted' = Append(admitted, now)
              /\ rlpc' = [rlpc EXCEPT ![c] = "idle"]
              /\ wake' = wake
         ELSE /\ request_times' = kept
              /\ admitted' = admitted
              /\ IF WaitTime(kept, now) > 0
                 THEN /\ rlpc' = [rlpc EXCEPT ![c] = "sleep"]
                      /\ wake' = [wake EXCEPT ![c] = now + WaitTime(kept, now) + SleepPad]
                 ELSE /\ rlpc' = [rlpc EXCEPT ![c] = "lock"]
                      /\ wake' = wake
    /\ lock' = LockAfterBlock(c, rlpc'[c] = "sleep")
    /\ UNCHANGED <<now, notRL>>

\* asyncio.sleep(wait_time + 0.05) returns once the clock has reached the
\* wake-up time; the loop goes back to the lock.
RLWake(c) ==
    /\ rlpc[c] = "sleep"
    /\ now >= wake[c]
    /\ rlpc' = [rlpc EXCEPT ![c] = "lock"]
    /\ wake' = [wake EXCEPT ![c] = 0]
    /\ UNCHANGED <<now, request_times, lock, admitted, notRL>>

\* Time passes.
RLTick ==
    /\ now < MaxTime
    /\ now' = now + 1
    /\ UNCHANGED <<request_times, lock, rlpc, wake, admitted, notRL>>

\* Time passes, seen from the clock: every timestamp moves one tick into the
\* past. acquire() uses only differences to `now`, and a recorded time of
\* age RATE_LIMIT_PERIOD or more is pruned whatever its age, so ages stop at
\* the period; admissions older than the window leave the history. This
\* keeps the state finite while time advances for ever.
RLElapse ==
    /\ request_times' = [i \in 1..Len(request_times) |->
                            Max(request_times[i] - 1, now - RATE_LIMIT_PERIOD)]
    /\ wake' = [c \in Callers |-> Max(wake[c] - 1, now)]
    /\ admitted' = Prune([i \in 1..Len(admitted) |-> admitted[i] - 1], now)
    /\ UNCHANGED <<now, lock, rlpc, notRL>>

----------------------------------------------------------------------------
\* TMDBClient._request (api-central/tmdb_client.py)

\* Bounds of the request model.
RETRY_DEFAULT == 2       \* the sleep without a Retry-After header, scaled down from 10
MaxRetries == 2          \* 429 answers the provider gives to one call

\* What the provider or the transport does with an attempt, and the
\* Retry-After header of a 429.
Responses == {"200", "429", "404", "500", "exception"}
Headers == {"absent", "1", "bad"}
HeaderSeconds(h) == IF h = "1" THEN 1 ELSE RETRY_DEFAULT

IdleRequest ==
    [pc |-> "idle", retries |-> 0, attempts |-> 0, last |-> "none", result |-> "none",
     wake |-> 0]

ReqStart ==
    /\ session = FALSE
    /\ rq = [c \in Callers |-> IdleRequest]
    /\ http = 0

\* async with TMDBClient() as client: __aenter__ sets the session.
ClientEnter ==
    /\ ~session
    /\ session' = TRUE
    /\ UNCHANGED <<rq, http, rlVars, notClient>>

\* _request is called: without a session it raises RuntimeError, otherwise
\* it enters rate_limiter.acquire().
ReqCall(c) ==
    /\ rq[c].pc = "idle"
    /\ rlpc[c] = "idle"
    /\ IF ~session
       THEN /\ rq' = [rq EXCEPT ![c].pc = "done", ![c].result = "raised"]
            /\ UNCHANGED rlpc
       ELSE /\ rq' = [rq EXCEPT ![c].pc = "acquire"]
            /\ rlpc' = [rlpc EXCEPT ![c] = "lock"]
    /\ UNCHANGED <<session, http, now, request_times, lock, wake, admitted, notClient>>

\* A mutant of AcquireReturned: the attempt does not wait for acquire().
AcquireSkipped(c) == TRUE

\* await self.rate_limiter.acquire() has returned.
AcquireReturned(c) == rlpc[c] = "idle"

\* A mutant of InRequestTry: the HTTP call is not wrapped in try/except.
InRequestTryNone(resp) == FALSE

\* session.get, the status tests, response.json(), int(Retry-After), the
\* sleep and the recursive call are all inside try ... except Exception.
InRequestTry(resp) == resp \in Responses

\* The result of an attempt that ends the call: the JSON body for a 200,
\* None for a 404 and for any other status, and for an exception None when
\* it is caught.
Outcome(resp) ==
    IF resp = "200" THEN "data"
    ELSE IF resp = "exception" /\ ~InRequestTry(resp) THEN "raised"
    ELSE "none"

\* One HTTP attempt: session.get(url, params) and the handling of its answer.
\* A 429 with a usable Retry-After (or none) goes to sleep before the retry;
\* a header that int() rejects is an exception like any other.
ReqHttp(c, resp, h) ==
    /\ rq[c].pc = "acquire"
    /\ AcquireReturned(c)
    /\ resp = "429" => rq[c].retries < MaxRetries
    /\ http' = http + 1
    /\ IF resp = "429" /\ h # "bad"
       THEN rq' = [rq EXCEPT ![c].pc = "backoff",
                             ![c].attempts = @ + 1,
                             ![c].last = resp,
                             ![c].wake = now + HeaderSeconds(h)]
       ELSE rq' = [rq EXCEPT ![c].pc = "done",
                             ![c].attempts = @ + 1,
                             ![c].last = resp,
                             ![c].result = Outcome(IF resp = "429" THEN "exception"
                                                   ELSE resp)]
    /\ UNCHANGED <<session, rlVars, notClient>>

\* asyncio.sleep(retry_after) is over: return await self._request(endpoint,
\* params), which enters acquire() again.
ReqRetry(c) ==
    /\ rq[c].pc = "backoff"
    /\ now >= rq[c].wake
    /\ rlpc[c] = "idle"
    /\ rq' = [rq EXCEPT ![c].pc = "acquire", ![c].retries = @ + 1, ![c].wake = 0]
    /\ rlpc' = [rlpc EXCEPT ![c] = "lock"]
    /\ UNCHANGED <<session, http, now, request_times, lock, wake, admitted, notClient>>

\* The caller has the result (or the exception) of its top-level call.
ReqReturn(c) ==
    /\ rq[c].pc = "done"
    /\ rq' = [rq EXCEPT ![c] = IdleRequest]
    /\ UNCHANGED <<session, http, rlVars, notClient>>

----------------------------------------------------------------------------
\* Crawl engine: the persisted cursor, the provider, the queue-mode crawl
\* (main.py fetch_movies / process_movie_worker) and the batch-mode crawl
\* (tmdb_importer.py TMDBImporter.import_media)

\* Bounds of the crawl model.
MaxTotal == 6        \* the provider reports 1..MaxTotal pages
ItemsPerPage == 1    \* items on each discovery page
BATCH_SIZE == 1      \* config.BATCH_SIZE, scaled down: the queue holds 2 * BATCH_SIZE
NUM_WORKERS == 2     \* main.NUM_WORKERS, scaled down
MaxFaults == 1       \* provider / storage faults per behaviour
MaxCeiling == 4      \* --pages: the batch crawl's page ceiling is 1..MaxCeiling
MaxBatch == 2        \* --batch: pages per batch is 1..MaxBatch

\* Program constants.
CheckpointEvery == 5
PageCap == 500

Workers == 1..NUM_WORKERS
NoRow == [last_page |-> -1, total_pages |-> 0, status |-> "absent"]
NoItem == 0

\* The items the provider lists on discovery page p (none beyond its last page).
PageItems(p) ==
    IF p >= 1 /\ p <= provTotal
    THEN [i \in 1..ItemsPerPage |-> (p - 1) * ItemsPerPage + i]
    ELSE <<>>

RECURSIVE ItemsOfPages(_, _)
\* all_items.extend(data["results"]) over the pages lo..hi
ItemsOfPages(lo, hi) ==
    IF lo > hi THEN {} ELSE SeqToSet(PageItems(lo)) \cup ItemsOfPages(lo + 1, hi)

\* get_sync_progress: the row, created with last_page = 0 when there is none.
GetSyncProgress(row) ==
    IF row = NoRow
    THEN [last_page |-> 0, total_pages |-> 0, status |-> "in_progress"]
    ELSE row

\* update_sync_progress: nothing without a row; total_pages only when truthy.
UpdateSyncProgress(row, lp, tp, st) ==
    IF row = NoRow THEN row
    ELSE [last_page |-> lp,
          total_pages |-> IF tp # 0 THEN tp ELSE row.total_pages,
          status |-> st]

\* The persisted last_page as a crawl reads it (0 when there is no row yet).
LastPage == IF cursor = NoRow THEN 0 ELSE cursor.last_page

\* asyncio.Queue.task_done called k times in a row on a counter n: each call
\* raises ValueError when the counter is not positive, else decrements it.
AfterTaskDone(n, k) == Max(n - k, 0)
TaskDoneRaises(n, k) == n < k

IdleRun ==
    /\ mode = "idle"
    /\ ppc = "none"
    /\ start_page = 0
    /\ total_pages = 0
    /\ page = 0
    /\ pending = <<>>
    /\ queue = <<>>
    /\ unfinished = 0
    /\ wpc = [w \in Workers |-> "none"]
    /\ witem = [w \in Workers |-> NoItem]
    /\ max_pages = 0
    /\ batch_end = 0
    /\ pages_per_batch = 0

CrawlStart ==
    /\ cursor = NoRow
    /\ movies = {}
    /\ provTotal \in 1..MaxTotal
    /\ faults = 0
    /\ reqPages = {}
    /\ requested = {}
    /\ served = {}
    /\ IdleRun

\* The crawler never run, against a provider with one page.
CrawlQuiet == CrawlStart /\ provTotal = 1

\* The process stops running the crawl: every task and all in-memory state is
\* gone, what was committed stays.
EndRun ==
    /\ mode' = "idle"
    /\ ppc' = "none"
    /\ start_page' = 0
    /\ total_pages' = 0
    /\ page' = 0
    /\ pending' = <<>>
    /\ queue' = <<>>
    /\ unfinished' = 0
    /\ wpc' = [w \in Workers |-> "none"]
    /\ witem' = [w \in Workers |-> NoItem]
    /\ max_pages' = 0
    /\ batch_end' = 0
    /\ pages_per_batch' = 0

\* ---- queue mode: fetch_movies ----

\* fetch_movies starts: reads (or creates) the cursor, start_page = last_page + 1,
\* creates the queue and the worker tasks.
QStart ==
    /\ mode = "idle"
    /\ cursor' = GetSyncProgress(cursor)
    /\ mode' = "queue"
    /\ ppc' = "first"
    /\ start_page' = GetSyncProgress(cursor).last_page + 1
    /\ wpc' = [w \in Workers |-> "get"]
    /\ reqPages' = {}
    /\ requested' = {}
    /\ served' = {}
    /\ UNCHANGED <<movies, provTotal, faults, total_pages, page, pending, queue,
                   unfinished, witem, max_pages, batch_end, pages_per_batch, notCrawl>>

\* first_page_data = discover_movies(page=start_page) answers:
\* total_pages = min(total_pages, 500) and the loop starts at start_page.
QFirst ==
    /\ mode = "queue" /\ ppc = "first"
    /\ total_pages' = Min(provTotal, PageCap)
    /\ page' = start_page
    /\ ppc' = "loop"
    /\ reqPages' = {start_page}
    /\ requested' = requested \cup {start_page}
    /\ served' = served
    /\ UNCHANGED <<dbVars, provTotal, faults, mode, start_page, pending, queue,
                   unfinished, wpc, witem, max_pages, batch_end, pages_per_batch, notCrawl>>

\* first_page_data is None: "Failed start", return; the finally block calls
\* cancel() on every worker and awaits them.
QFirstFails ==
    /\ mode = "queue" /\ ppc = "first"
    /\ faults < MaxFaults
    /\ faults' = faults + 1
    /\ ppc' = "finally"
    /\ reqPages' = {start_page}
    /\ requested' = requested \cup {start_page}
    /\ served' = served
    /\ UNCHANGED <<dbVars, provTotal, mode, start_page, total_pages, page, pending,
                   queue, unfinished, wpc, witem, max_pages, batch_end, pages_per_batch, notCrawl>>

\* The loop requests discovery page `page` and gets its results.
QDiscover ==
    /\ mode = "queue" /\ ppc = "loop"
    /\ page <= total_pages
    /\ pending' = PageItems(page)
    /\ ppc' = "put"
    /\ reqPages' = {page}
    /\ requested' = requested \cup {page}
    /\ served' = served
    /\ UNCHANGED <<dbVars, provTotal, faults, mode, start_page, total_pages, page,
                   queue, unfinished, wpc, witem, max_pages, batch_end, pages_per_batch, notCrawl>>

\* The discovery request returns no data: `continue`, the page is skipped
\* (and with it the checkpoint).
QDiscoverFails ==
    /\ mode = "queue" /\ ppc = "loop"
    /\ page <= total_pages
    /\ faults < MaxFaults
    /\ faults' = faults + 1
    /\ page' = page + 1
    /\ reqPages' = {page}
    /\ requested' = requested \cup {page}
    /\ served' = served
    /\ UNCHANGED <<dbVars, provTotal, mode, ppc, start_page, total_pages, pending,
                   queue, unfinished, wpc, witem, max_pages, batch_end, pages_per_batch, notCrawl>>

\* asyncio.Queue(maxsize=BATCH_SIZE * 2).full()
QueueNeverFull(q) == FALSE
QueueFull(q) == Len(q) >= 2 * BATCH_SIZE

\* await queue.put(m): blocks while the queue is full.
QPut ==
    /\ mode = "queue" /\ ppc = "put"
    /\ pending # <<>>
    /\ ~QueueFull(queue)
    /\ queue' = Append(queue, Head(pending))
    /\ unfinished' = unfinished + 1
    /\ pending' = Tail(pending)
    /\ reqPages' = {}
    /\ requested' = requested
    /\ served' = served
    /\ UNCHANGED <<dbVars, provTotal, faults, mode, ppc, start_page, total_pages,
                   page, wpc, witem, max_pages, batch_end, pages_per_batch, notCrawl>>

\* All results of the page are in the queue: checkpoint when page % 5 == 0,
\* then the next page.
QPageDone ==
    /\ mode = "queue" /\ ppc = "put"
    /\ pending = <<>>
    /\ cursor' = IF page % CheckpointEvery = 0
                 THEN UpdateSyncProgress(cursor, page, total_pages, "in_progress")
                 ELSE cursor
    /\ page' = page + 1
    /\ ppc' = "loop"
    /\ reqPages' = {}
    /\ requested' = requested
    /\ served' = served
    /\ UNCHANGED <<movies, provTotal, faults, mode, start_page, total_pages, pending,
                   queue, unfinished, wpc, witem, max_pages, batch_end, pages_per_batch, notCrawl>>

\* range(start_page, total_pages + 1) is exhausted: await queue.join().
QLoopEnd ==
    /\ mode = "queue" /\ ppc = "loop"
    /\ page > total_pages
    /\ ppc' = "join"
    /\ reqPages' = {}
    /\ requested' = requested
    /\ served' = served
    /\ UNCHANGED <<dbVars, provTotal, faults, mode, start_page, total_pages, page,
                   pending, queue, unfinished, wpc, witem, max_pages, batch_end, pages_per_batch, notCrawl>>

\* queue.join() returns when no task is unfinished; the final update marks the
\* cursor completed at total_pages; the finally block calls cancel() on every
\* worker and awaits them.
QFinal ==
    /\ mode = "queue" /\ ppc = "join"
    /\ unfinished = 0
    /\ cursor' = UpdateSyncProgress(cursor, total_pages, total_pages, "completed")
    /\ ppc' = "finally"
    /\ reqPages' = {}
    /\ requested' = requested
    /\ served' = served
    /\ UNCHANGED <<movies, provTotal, faults, mode, start_page, total_pages, page, pending,
                   queue, unfinished, wpc, witem, max_pages, batch_end, pages_per_batch, notCrawl>>

\* The producer is cancelled at one of its awaits (a discovery request, put,
\* join): CancelledError is caught and logged, then the finally block runs.
QCancelled ==
    /\ mode = "queue" /\ ppc \in {"first", "loop", "put", "join"}
    /\ ppc' = "finally"
    /\ reqPages' = {}
    /\ requested' = requested
    /\ served' = served
    /\ UNCHANGED <<dbVars, provTotal, faults, mode, start_page, total_pages, page, pending,
                   queue, unfinished, wpc, witem, max_pages, batch_end, pages_per_batch, notCrawl>>

\* update_sync_progress raises (the checkpoint or the final update): no
\* handler catches it, the finally block runs and the exception propagates.
QRaises ==
    /\ mode = "queue"
    /\ \/ ppc = "put" /\ pending = <<>> /\ page % CheckpointEvery = 0
       \/ ppc = "join" /\ unfinished = 0
    /\ faults < MaxFaults
    /\ faults' = faults + 1
    /\ ppc' = "finally"
    /\ reqPages' = {}
    /\ requested' = requested
    /\ served' = served
    /\ UNCHANGED <<dbVars, provTotal, mode, start_page, total_pages, page, pending,
                   queue, unfinished, wpc, witem, max_pages, batch_end, pages_per_batch, notCrawl>>

\* await asyncio.gather(*workers, return_exceptions=True) returns when every
\* worker task has ended, by its break or by an exception.
WorkersNotAwaited == TRUE
WorkersStopped == \A w \in Workers : wpc[w] \in {"done", "dead"}

\* The finally block is through: fetch_movies returns (or re-raises).
QReturn ==
    /\ mode = "queue" /\ ppc = "finally"
    /\ WorkersStopped
    /\ reqPages' = {}
    /\ requested' = {}
    /\ served' = served
    /\ EndRun
    /\ UNCHANGED <<dbVars, provTotal, faults, notCrawl>>

\* ---- queue mode: process_movie_worker ----

\* movie_basic_data = await queue.get()
WGet(w) ==
    /\ mode = "queue" /\ ppc # "finally" /\ wpc[w] = "get"
    /\ queue # <<>>
    /\ witem' = [witem EXCEPT ![w] = Head(queue)]
    /\ queue' = Tail(queue)
    /\ wpc' = [wpc EXCEPT ![w] = "details"]
    /\ reqPages' = {}
    /\ requested' = requested
    /\ served' = served
    /\ UNCHANGED <<dbVars, provTotal, faults, mode, ppc, start_page, total_pages,
                   page, pending, unfinished, max_pages, batch_end, pages_per_batch, notCrawl>>

\* get_movie_details answers with the details.
WDetails(w) ==
    /\ mode = "queue" /\ ppc # "finally" /\ wpc[w] = "details"
    /\ wpc' = [wpc EXCEPT ![w] = "merge"]
    /\ reqPages' = {}
    /\ requested' = requested
    /\ served' = served
    /\ UNCHANGED <<dbVars, provTotal, faults, mode, ppc, start_page, total_pages,
                   page, pending, queue, unfinished, witem, max_pages, batch_end, pages_per_batch, notCrawl>>

\* get_movie_details returns None: task_done() and `continue`, and the finally
\* block calls task_done() once more; a task_done() that raises ValueError ends
\* in the outer handler, whose own task_done() raises again and ends the task.
WNoDetails(w) ==
    /\ mode = "queue" /\ ppc # "finally" /\ wpc[w] = "details"
    /\ faults < MaxFaults
    /\ faults' = faults + 1
    /\ unfinished' = AfterTaskDone(unfinished, 2)
    /\ wpc' = [wpc EXCEPT ![w] = IF TaskDoneRaises(unfinished, 2) THEN "dead" ELSE "get"]
    /\ witem' = [witem EXCEPT ![w] = NoItem]
    /\ reqPages' = {}
    /\ requested' = requested
    /\ served' = served
    /\ UNCHANGED <<dbVars, provTotal, mode, ppc, start_page, total_pages, page,
                   pending, queue, max_pages, batch_end, pages_per_batch, notCrawl>>

\* session.merge(movie); session.commit(); finally task_done().
WMerge(w) ==
    /\ mode = "queue" /\ ppc # "finally" /\ wpc[w] = "merge"
    /\ movies' = movies \cup {witem[w]}
    /\ unfinished' = AfterTaskDone(unfinished, 1)
    /\ wpc' = [wpc EXCEPT ![w] = IF TaskDoneRaises(unfinished, 1) THEN "dead" ELSE "get"]
    /\ witem' = [witem EXCEPT ![w] = NoItem]
    /\ reqPages' = {}
    /\ requested' = requested
    /\ served' = served
    /\ UNCHANGED <<cursor, provTotal, faults, mode, ppc, start_page, total_pages,
                   page, pending, queue, max_pages, batch_end, pages_per_batch, notCrawl>>

\* The merge or the commit raises: logged, session.rollback(); finally task_done().
WMergeFails(w) ==
    /\ mode = "queue" /\ ppc # "finally" /\ wpc[w] = "merge"
    /\ faults < MaxFaults
    /\ faults' = faults + 1
    /\ unfinished' = AfterTaskDone(unfinished, 1)
    /\ wpc' = [wpc EXCEPT ![w] = IF TaskDoneRaises(unfinished, 1) THEN "dead" ELSE "get"]
    /\ witem' = [witem EXCEPT ![w] = NoItem]
    /\ reqPages' = {}
    /\ requested' = requested
    /\ served' = served
    /\ UNCHANGED <<dbVars, provTotal, mode, ppc, start_page, total_pages, page,
                   pending, queue, max_pages, batch_end, pages_per_batch, notCrawl>>

\* A cancelled worker gets CancelledError at its await.  In queue.get(): break.
\* In get_movie_details or in merge/commit: `except Exception` does not catch
\* it, the finally block calls task_done(), then break (or, when task_done()
\* raises, the task ends with ValueError); a commit that was under way either
\* took effect or did not.  The session is closed as the task ends.
WCancelled(w) ==
    /\ mode = "queue" /\ ppc = "finally"
    /\ wpc[w] \in {"get", "details", "merge"}
    /\ \E committed \in BOOLEAN :
          /\ committed => wpc[w] = "merge"
          /\ movies' = IF committed THEN movies \cup {witem[w]} ELSE movies
    /\ unfinished' = IF wpc[w] = "get" THEN unfinished ELSE AfterTaskDone(unfinished, 1)
    /\ wpc' = [wpc EXCEPT ![w] = IF wpc[w] # "get" /\ TaskDoneRaises(unfinished, 1)
                                  THEN "dead" ELSE "done"]
    /\ witem' = [witem EXCEPT ![w] = NoItem]
    /\ reqPages' = {}
    /\ requested' = requested
    /\ served' = served
    /\ UNCHANGED <<cursor, provTotal, faults, mode, ppc, start_page, total_pages,
                   page, pending, queue, max_pages, batch_end, pages_per_batch, notCrawl>>

\* ---- batch mode: TMDBImporter.import_media ----

\* import_media("movie") starts with the default start_page = 1: with a
\* persisted last_page > 0 it resumes at last_page + 1.
BStart(m, b) ==
    /\ mode = "idle"
    /\ cursor' = GetSyncProgress(cursor)
    /\ mode' = "batch"
    /\ ppc' = "while"
    /\ max_pages' = m
    /\ pages_per_batch' = b
    /\ start_page' = IF GetSyncProgress(cursor).last_page > 0
                     THEN GetSyncProgress(cursor).last_page + 1
                     ELSE 1
    /\ page' = start_page'
    /\ total_pages' = m
    /\ reqPages' = {}
    /\ requested' = {}
    /\ served' = {}
    /\ UNCHANGED <<movies, provTotal, faults, pending, queue, unfinished, wpc, witem,
                   batch_end, notCrawl>>

\* One turn of the while loop up to the save: the pages of the batch are
\* requested together (process_page_batch), those in `failed` return no data;
\* the items of the others are enriched, those in `lost` get None and are
\* filtered out; total_pages_discovered follows the provider's total_pages
\* when one page answered.
BBatch(failed, lost) ==
    /\ mode = "batch" /\ ppc = "while"
    /\ page <= Min(max_pages, total_pages)
    /\ LET end == Min(page + pages_per_batch, max_pages + 1)
           pages == page..(end - 1)
           ok == pages \ failed
           items == UNION {SeqToSet(PageItems(q)) : q \in ok}
           valid == items \ lost
           total == IF ok = {} THEN 0 ELSE provTotal
       IN /\ failed \subseteq pages
          /\ lost \subseteq items
          /\ faults + Cardinality(failed) + Cardinality(lost) <= MaxFaults
          /\ faults' = faults + Cardinality(failed) + Cardinality(lost)
          /\ served' = served \cup valid
          /\ batch_end' = end
          /\ reqPages' = pages
          /\ requested' = requested \cup pages
          /\ total_pages' = IF total > 0 THEN Min(total, max_pages) ELSE total_pages
          /\ IF valid # {}
             THEN /\ pending' = SetToSeq(valid)
                  /\ ppc' = "save"
                  /\ page' = page
             ELSE /\ pending' = <<>>
                  /\ ppc' = "while"
                  /\ page' = end
    /\ UNCHANGED <<dbVars, provTotal, mode, start_page, queue, unfinished, wpc, witem,
                   max_pages, pages_per_batch, notCrawl>>

\* A mutant of MergeAll: the batch is not written.
MergeNone(rows, results) == rows

\* for data in results: await session.merge(model_class(**data))
MergeAll(rows, results) == rows \cup SeqToSet(results)

\* for data in results: session.merge(...); session.commit()
BSave ==
    /\ mode = "batch" /\ ppc = "save"
    /\ movies' = MergeAll(movies, pending)
    /\ ppc' = "cursor"
    /\ reqPages' = {}
    /\ requested' = requested
    /\ served' = served
    /\ UNCHANGED <<cursor, provTotal, faults, mode, start_page, total_pages, page,
                   pending, queue, unfinished, wpc, witem, max_pages, batch_end,
                   pages_per_batch, notCrawl>>

\* The merge or the commit raises: import_media ends with the exception.
BSaveFails ==
    /\ mode = "batch" /\ ppc = "save"
    /\ faults < MaxFaults
    /\ faults' = faults + 1
    /\ reqPages' = {}
    /\ requested' = {}
    /\ served' = served
    /\ EndRun
    /\ UNCHANGED <<dbVars, provTotal, notCrawl>>

\* update_sync_progress(session, media_type, pages[-1], total_pages_discovered);
\* current_page = batch_end
BCursor ==
    /\ mode = "batch" /\ ppc = "cursor"
    /\ cursor' = UpdateSyncProgress(cursor, batch_end - 1, total_pages, "in_progress")
    /\ page' = batch_end
    /\ pending' = <<>>
    /\ ppc' = "while"
    /\ reqPages' = {}
    /\ requested' = requested
    /\ served' = served
    /\ UNCHANGED <<movies, provTotal, faults, mode, start_page, total_pages, queue,
                   unfinished, wpc, witem, max_pages, batch_end, pages_per_batch, notCrawl>>

\* The while loop ends: "Mark as completed" with last_page = max_pages.
BFinal ==
    /\ mode = "batch" /\ ppc = "while"
    /\ page > Min(max_pages, total_pages)
    /\ cursor' = UpdateSyncProgress(cursor, max_pages, max_pages, "completed")
    /\ reqPages' = {}
    /\ requested' = {}
    /\ served' = served
    /\ EndRun
    /\ UNCHANGED <<movies, provTotal, faults, notCrawl>>

\* ---- both modes ----

\* The crawl is interrupted (Ctrl+C, cancellation, the process is killed):
\* the producer stops, the workers are cancelled, uncommitted work is dropped.
Interrupt ==
    /\ mode # "idle"
    /\ reqPages' = {}
    /\ requested' = {}
    /\ served' = served
    /\ EndRun
    /\ UNCHANGED <<dbVars, provTotal, faults, notCrawl>>

\* Between two runs the provider's catalogue, and so its total_pages, changes.
ProviderChange ==
    /\ mode = "idle"
    /\ faults < MaxFaults
    /\ faults' = faults + 1
    /\ \E t \in 1..MaxTotal : t # provTotal /\ provTotal' = t
    /\ reqPages' = {}
    /\ requested' = requested
    /\ served' = served
    /\ UNCHANGED <<dbVars, runVars, notCrawl>>

----------------------------------------------------------------------------
\* Bulk IMDb importer (imdb_importer.py)

\* Bounds of the importer model.
FlushEvery == 2          \* rows per bulk insert, scaled down from 50000
MaxLines == 1            \* data lines of title.basics in SpecImdb
MaxDepLines == 2         \* data lines of the three dependent datasets together
MaxBasicsLines == 4      \* data lines of title.basics in SpecBasics
MaxDownloadFails == 1    \* failed downloads per behaviour

DATASETS == {"title.basics", "title.ratings", "title.akas", "title.principals"}
Dependents == {"title.ratings", "title.akas", "title.principals"}
VALID_TYPES == {"movie", "tvSeries", "tvMiniSeries", "tvMovie"}

\* The table a dataset is loaded into, its column count in the INSERT, and
\* whether its leading column is a PRIMARY KEY.
TableOf(name) ==
    CASE name = "title.basics" -> "imdb_titles"
      [] name = "title.ratings" -> "imdb_ratings"
      [] name = "title.akas" -> "imdb_akas"
      [] OTHER -> "imdb_principals"
NCols(name) ==
    CASE name = "title.basics" -> 9
      [] name = "title.ratings" -> 3
      [] name = "title.akas" -> 8
      [] OTHER -> 6
HasPrimaryKey(name) == name \in {"title.basics", "title.ratings"}
\* A mutant of PhaseAfter: the pipeline ends after the ratings phase.
PhaseAfterRatings(name) ==
    IF name = "title.basics" THEN "title.ratings" ELSE "done"

\* The phase pipeline() runs after a dataset's phase.
PhaseAfter(name) ==
    CASE name = "title.basics" -> "title.ratings"
      [] name = "title.ratings" -> "title.akas"
      [] name = "title.akas" -> "title.principals"
      [] OTHER -> "done"

Tables == {TableOf(name) : name \in DATASETS}
NULL == "NULL"
Header == <<"header">>

\* parts[:n]
Take(parts, n) == SubSeq(parts, 1, Min(n, Len(parts)))

\* [None if p == '\\N' else p for p in parts]
NullConv(parts) == [i \in 1..Len(parts) |-> IF parts[i] = "\\N" THEN NULL ELSE parts[i]]

\* A mutant of Accepts: the dependent phases buffer every row.
AcceptsAll(name, parts, valid) ==
    IF name = "title.basics" THEN parts[2] \in VALID_TYPES ELSE TRUE

\* Whether the loop buffers the row: the type whitelist for title.basics,
\* membership of the leading identifier in valid_tconsts for the others.
Accepts(name, parts, valid) ==
    IF name = "title.basics" THEN parts[2] \in VALID_TYPES ELSE parts[1] \in valid

\* The buffered row. (process_ratings indexes parts[1] and parts[2].)
RowOf(name, parts) ==
    IF name = "title.ratings" THEN <<parts[1], parts[2], parts[3]>>
    ELSE NullConv(Take(parts, NCols(name)))
IndexError(name, parts, valid) ==
    name = "title.ratings" /\ Accepts(name, parts, valid) /\ Len(parts) < 3

\* c.executemany("INSERT ...", batch) succeeds when every row binds all the
\* placeholders and no PRIMARY KEY value repeats; otherwise it raises.
ExecuteManyOK(name, rows, batch) ==
    /\ \A i \in 1..Len(batch) : Len(batch[i]) = NCols(name)
    /\ HasPrimaryKey(name) =>
         /\ \A i \in 1..Len(batch) : \A j \in 1..Len(rows) : batch[i][1] # rows[j][1]
         /\ \A i, j \in 1..Len(batch) : i # j => batch[i][1] # batch[j][1]

\* executemany + conn.commit(); batch = []. An exception leaves the table as
\* last committed and ends the phase.
Flush(name, st) ==
    IF ExecuteManyOK(name, st.rows, st.batch)
    THEN [st EXCEPT !.rows = st.rows \o st.batch, !.batch = <<>>]
    ELSE [st EXCEPT !.err = TRUE, !.batch = <<>>]

RECURSIVE LoadLoop(_, _, _, _)
\* for line in f: ... of process_basics / process_ratings / process_akas /
\* process_principals, from the state st = [rows, batch, kept, err].
LoadLoop(name, lines, valid, st) ==
    IF lines = <<>> \/ st.err THEN st
    ELSE LET parts == Head(lines) IN
         IF name = "title.basics" /\ Len(parts) < 9
         THEN LoadLoop(name, Tail(lines), valid, st)
         ELSE IF IndexError(name, parts, valid)
         THEN [st EXCEPT !.err = TRUE]
         ELSE LET st1 == IF Accepts(name, parts, valid)
                         THEN [st EXCEPT !.batch = Append(st.batch, RowOf(name, parts)),
                                         !.kept = st.kept \cup {parts[1]}]
                         ELSE st
                  st2 == IF Len(st1.batch) >= FlushEvery THEN Flush(name, st1) ELSE st1
              IN LoadLoop(name, Tail(lines), valid, st2)

\* A mutant of FinalFlush: the last partial batch is never inserted.
FinalFlushNone(name, st) == st

\* if batch: executemany(...); conn.commit()
FinalFlush(name, st) ==
    IF ~st.err /\ st.batch # <<>> THEN Flush(name, st) ELSE st

\* A mutant of Recreate: only imdb_titles is dropped, the other tables keep
\* their rows.
RecreateTitlesOnly(name, old) == IF name = "title.basics" THEN <<>> ELSE old

\* DROP TABLE IF EXISTS ...; CREATE TABLE ...: an empty table.
Recreate(name, old) == <<>>

\* process_basics(file) / process_ratings(file, valid) / ...: the table is
\* recreated, the lines after the header are streamed and flushed.
ProcessFile(name, file, valid, old) ==
    FinalFlush(name,
        LoadLoop(name, Tail(file), valid,
                 [rows |-> Recreate(name, old), batch |-> <<>>, kept |-> {}, err |-> FALSE]))

EmptyTabs == [t \in Tables |-> <<>>]
NoPrevRun == [done |-> FALSE, files |-> {}, tabs |-> EmptyTabs, exists |-> {}]
RunEnded == ipc \in {"done", "aborted", "crashed"}

\* The importer before its first run, for given remote datasets.
ImdbStart(c) ==
    /\ content = c
    /\ disk = {}
    /\ tabs = EmptyTabs
    /\ exists = {}
    /\ ipc = "idle"
    /\ files = {}
    /\ valid_tconsts = {}
    /\ ran = {}
    /\ dlFails = 0
    /\ prevRun = NoPrevRun

\* The importer never run, with empty datasets.
ImdbQuiet == ImdbStart([name \in DATASETS |-> <<Header>>])

\* pipeline() starts: every dataset not yet on disk is downloaded, those in
\* `got` successfully; files = what is on disk; without title.basics it returns.
PDownload(got) ==
    /\ ipc = "idle" \/ RunEnded
    /\ got \subseteq DATASETS \ disk
    /\ dlFails + Cardinality((DATASETS \ disk) \ got) <= MaxDownloadFails
    /\ dlFails' = dlFails + Cardinality((DATASETS \ disk) \ got)
    /\ disk' = disk \cup got
    /\ files' = disk \cup got
    /\ ipc' = IF "title.basics" \in files' THEN "title.basics" ELSE "aborted"
    /\ valid_tconsts' = {}
    /\ ran' = {}
    /\ prevRun' = IF RunEnded
                  THEN [done |-> TRUE, files |-> files, tabs |-> tabs, exists |-> exists]
                  ELSE prevRun
    /\ UNCHANGED <<content, tabs, exists, notImdb>>

\* Between two runs a dataset file is deleted from DATA_DIR (the files are
\* kept after a run; nothing in the importer removes them).
PRemove(name) ==
    /\ ipc = "idle" \/ RunEnded
    /\ name \in disk
    /\ disk' = disk \ {name}
    /\ UNCHANGED <<content, tabs, exists, ipc, files, valid_tconsts, ran, dlFails, prevRun,
                   notImdb>>

\* valid_tconsts = process_basics(files["title.basics"])
PBasics ==
    /\ ipc = "title.basics"
    /\ LET r == ProcessFile("title.basics", content["title.basics"], {},
                            tabs["imdb_titles"])
       IN /\ tabs' = [tabs EXCEPT !["imdb_titles"] = r.rows]
          /\ valid_tconsts' = IF r.err THEN valid_tconsts ELSE r.kept
          /\ ipc' = IF r.err THEN "crashed" ELSE PhaseAfter("title.basics")
    /\ exists' = exists \cup {"imdb_titles"}
    /\ ran' = ran \cup {"title.basics"}
    /\ UNCHANGED <<content, disk, files, dlFails, prevRun, notImdb>>

\* if name in files: process_ratings / process_akas / process_principals
\* (files[name], valid_tconsts); the phase is skipped without the file.
PDependent(name) ==
    /\ ipc = name
    /\ name \in Dependents
    /\ IF name \in files
       THEN LET r == ProcessFile(name, content[name], valid_tconsts, tabs[TableOf(name)])
            IN /\ tabs' = [tabs EXCEPT ![TableOf(name)] = r.rows]
               /\ ipc' = IF r.err THEN "crashed" ELSE PhaseAfter(name)
               /\ exists' = exists \cup {TableOf(name)}
               /\ ran' = ran \cup {name}
       ELSE /\ ipc' = PhaseAfter(name)
            /\ UNCHANGED <<tabs, exists, ran>>
    /\ UNCHANGED <<content, disk, files, valid_tconsts, dlFails, prevRun, notImdb>>

\* ---- the datasets the model is run on ----

Tconsts == {"tt1", "tt2", "tt3"}
FewTconsts == {"tt1", "tt2"}

\* A title.basics line of 9 fields; one with too few fields; one with a tenth.
BasicsLine(tc, ty) == <<tc, ty, "t", "t", "0", "\\N", "\\N", "90", "g">>
BasicsShort(tc, ty) == <<tc, ty, "t">>
BasicsLong(tc, ty) == BasicsLine(tc, ty) \o <<"x">>

\* A well-formed line of a dependent dataset, and one with too few fields.
DepLine(name, tc) ==
    CASE name = "title.ratings" -> <<tc, "8.1", "1000">>
      [] name = "title.akas" -> <<tc, "1", "t", "\\N", "\\N", "\\N", "\\N", "0">>
      [] OTHER -> <<tc, "1", "nm1", "actor", "\\N", "\\N">>
DepShort(name, tc) == <<tc>>

SeqsUpTo(S, n) == UNION {[1..k -> S] : k \in 0..n}

BasicsLines(T) ==
    {BasicsLine(tc, "movie") : tc \in T}
        \cup {BasicsLine("tt1", "short"), BasicsShort("tt1", "movie"),
              BasicsLong("tt2", "movie")}
DepLines(name) ==
    {DepLine(name, tc) : tc \in FewTconsts} \cup {DepShort(name, "tt1")}

MkContent(b, r, a, p) ==
    [name \in DATASETS |->
        <<Header>> \o (CASE name = "title.basics" -> b
                         [] name = "title.ratings" -> r
                         [] name = "title.akas" -> a
                         [] OTHER -> p)]

\* Between two runs IMDb publishes a new title.basics; a run sees it when it
\* downloads the file, that is, when no copy is left in DATA_DIR.
PPublish(b) ==
    /\ ipc = "idle" \/ RunEnded
    /\ "title.basics" \notin disk
    /\ content' = [content EXCEPT !["title.basics"] = <<Header>> \o b]
    /\ UNCHANGED <<disk, tabs, exists, ipc, files, valid_tconsts, ran, dlFails, prevRun,
                   notImdb>>

----------------------------------------------------------------------------
\* Hybrid discovery and enrichment cache (backend/services/local_discover.py)

\* Bounds of the discovery model.
NumSessions == 2         \* discover_movies / enrich_movies_with_ratings calls, one session each
NumTmdb == 2             \* provider ids 1..NumTmdb
MaxLookupFails == 1      \* failed provider lookups per behaviour
MaxUpserts == 1          \* crawler upserts per behaviour

Sessions == 1..NumSessions
TmdbIds == 1..NumTmdb
NoWriter == 0
Crawler == NumSessions + 1
ImdbIdValues == FewTconsts \cup {NULL}

\* A lookup still in flight, and a lookup that gave nothing (None).
Unfetched == [tmdb_id |-> -1, imdb_id |-> NULL]
NoResult(kind, key) ==
    [tmdb_id |-> IF kind = "enrich" THEN key ELSE 0, imdb_id |-> NULL]

\* averageRating and numVotes of a tconst in imdb_ratings.
RatingOf(tc) == CASE tc = "tt1" -> 71 [] tc = "tt2" -> 82 [] OTHER -> 93
VotesOf(tc) == CASE tc = "tt1" -> 100 [] tc = "tt2" -> 200 [] OTHER -> 300

IdleSession ==
    [pc |-> "idle", kind |-> "none", ids |-> <<>>, final_results |-> <<>>,
     tasks |-> <<>>, api_results |-> <<>>, to_cache |-> <<>>, pending |-> <<>>,
     flushed |-> <<>>, resolved |-> {}, out |-> <<>>, caught |-> FALSE,
     raised |-> FALSE, inp |-> <<>>, known |-> {}, looked |-> <<>>]

\* ---- the storage layer ----

\* A mutant of PrimaryKeyOK: the table has no PRIMARY KEY.
PrimaryKeyFree(t, op) == TRUE

\* movies.id is the PRIMARY KEY: an INSERT of an id that has a row fails.
PrimaryKeyOK(t, op) == op.op = "ins" => t[op.id] = <<>>

\* INSERT a row / UPDATE movies SET imdb_id = ... WHERE id = ...
ApplyOp(t, op) ==
    IF op.op = "ins" THEN [t EXCEPT ![op.id] = Append(@, op.imdb_id)]
    ELSE [t EXCEPT ![op.id] = [i \in 1..Len(@) |-> op.imdb_id]]

RECURSIVE ApplyAll(_, _)
ApplyAll(t, ops) == IF ops = <<>> THEN t ELSE ApplyAll(ApplyOp(t, Head(ops)), Tail(ops))

RECURSIVE FlushOK(_, _)
\* session.flush(): the pending statements are executed in order.
FlushOK(t, ops) ==
    ops = <<>> \/ (PrimaryKeyOK(t, Head(ops)) /\ FlushOK(ApplyOp(t, Head(ops)), Tail(ops)))

\* What a session reads: the committed rows and its own flushed statements.
View(s) == ApplyAll(movie_rows, sess[s].flushed)
\* A flush needs the write lock.
CanWrite(c) == writer \in {NoWriter, c}

\* A mutant of InTry: the cache write is not wrapped in try/except.
InTryNone(kind) == FALSE

\* The session.get / session.add / session.commit of the cache write are
\* inside try ... except Exception: rollback, in both functions.
InTry(kind) == kind \in {"discover", "enrich"}

\* The position after the cache write.
AfterCache(kind) == IF kind = "discover" THEN "assemble" ELSE "attach"

\* ---- the provider ----

\* /find/{tconst} -> movie_results[0], normalized, with imdb_id = tconst;
\* /{type}/{id}/external_ids -> (tid, imdb_id).
Lookup(kind, key) ==
    IF kind = "discover"
    THEN IF tmdbOf[key] # 0 THEN [tmdb_id |-> tmdbOf[key], imdb_id |-> key]
         ELSE NoResult(kind, key)
    ELSE IF \E x \in FewTconsts : tmdbOf[x] = key
         THEN [tmdb_id |-> key, imdb_id |-> CHOOSE x \in FewTconsts : tmdbOf[x] = key]
         ELSE NoResult(kind, key)

\* ---- discover_movies ----

\* item.update(imdb_data_map[tconst])
WithRating(item, tc) ==
    [tmdb_id |-> item.tmdb_id, imdb_id |-> item.imdb_id,
     imdb_rating |-> RatingOf(tc), imdb_votes |-> VotesOf(tc)]

\* The last element of final_results whose imdb_id is tc: lookup[tc].
LookupItem(fr, tc) ==
    fr[CHOOSE i \in 1..Len(fr) :
          fr[i].imdb_id = tc /\ \A j \in (i+1)..Len(fr) : fr[j].imdb_id # tc]

\* A mutant of Assemble: the results are returned as they were collected.
AssembleCollected(ids, fr) == [i \in 1..Len(fr) |-> WithRating(fr[i], fr[i].imdb_id)]

\* ordered_results: for tconst in imdb_ids: if tconst in lookup: ...
Assemble(ids, fr) ==
    LET kept == Filter(ids, {fr[i].imdb_id : i \in 1..Len(fr)})
    IN [i \in 1..Len(kept) |-> WithRating(LookupItem(fr, kept[i]), kept[i])]

\* A mutant of NeedsLookup: every identifier is looked up.
NeedsLookupAll(ids, have) == ids

\* for tconst in imdb_ids: if tconst in local_movies: ... else:
\* tasks.append(fetch_missing(tconst))
NeedsLookup(ids, have) == Filter(ids, SeqToSet(ids) \ have)

\* The first statements of discover_movies: the rating query, the query of
\* the movies rows with these imdb_ids, and the split into local results and
\* lookups. lm is local_movies, one row per imdb_id that has rows.
DStart(s) ==
    /\ sess[s].pc = "idle"
    /\ LET ids == rating_rows
           have == {x \in SeqToSet(ids) : \E k \in TmdbIds : \E i \in 1..Len(movie_rows[k]) :
                        movie_rows[k][i] = x}
       IN \E lm \in [have -> TmdbIds] :
            /\ \A x \in have : \E i \in 1..Len(movie_rows[lm[x]]) : movie_rows[lm[x]][i] = x
            /\ LET loc == Filter(ids, have)
                   miss == NeedsLookup(ids, have)
               IN sess' = [sess EXCEPT ![s] =
                    [IdleSession EXCEPT
                       !.kind = "discover",
                       !.ids = ids,
                       !.final_results = [i \in 1..Len(loc) |->
                                            [tmdb_id |-> lm[loc[i]], imdb_id |-> loc[i]]],
                       !.tasks = miss,
                       !.api_results = [i \in 1..Len(miss) |-> Unfetched],
                       !.known = have,
                       !.looked = [x \in SeqToSet(miss) |-> 0],
                       !.pc = IF ids = <<>> THEN "returned"
                              ELSE IF miss = <<>> THEN "assemble" ELSE "fetch"]]
    /\ UNCHANGED <<movie_rows, writer, rating_rows, tmdbOf, lookupFails, upserts, notDisc>>

\* One of the gathered lookups completes, in any order; an exception inside
\* it gives None.
Fetched(s, i, ok) ==
    /\ sess[s].pc = "fetch"
    /\ i \in 1..Len(sess[s].tasks)
    /\ sess[s].api_results[i] = Unfetched
    /\ ok \/ lookupFails < MaxLookupFails
    /\ lookupFails' = IF ok THEN lookupFails ELSE lookupFails + 1
    /\ sess' = [sess EXCEPT
                  ![s].api_results[i] =
                      IF ok THEN Lookup(sess[s].kind, sess[s].tasks[i])
                      ELSE NoResult(sess[s].kind, sess[s].tasks[i]),
                  ![s].looked[sess[s].tasks[i]] = @ + 1]
    /\ UNCHANGED <<movie_rows, writer, rating_rows, tmdbOf, upserts, notDisc>>

RECURSIVE Found(_)
\* [res for res in api_results if res] / [(tid, iid) ... if iid]
Found(rs) ==
    IF rs = <<>> THEN <<>>
    ELSE IF Head(rs).imdb_id # NULL THEN <<Head(rs)>> \o Found(Tail(rs))
         ELSE Found(Tail(rs))

\* asyncio.gather returns; the results that are not None are collected in
\* task order and queued for the cache write.
Gather(s) ==
    /\ sess[s].pc = "fetch"
    /\ sess[s].tasks # <<>>
    /\ \A i \in 1..Len(sess[s].tasks) : sess[s].api_results[i] # Unfetched
    /\ LET got == Found(sess[s].api_results)
       IN sess' = [sess EXCEPT
                     ![s].final_results = @ \o got,
                     ![s].tasks = <<>>,
                     ![s].api_results = <<>>,
                     ![s].to_cache = got,
                     ![s].resolved = {got[i] : i \in 1..Len(got)},
                     ![s].pc = IF got = <<>> THEN AfterCache(sess[s].kind) ELSE "cache"]
    /\ UNCHANGED <<movie_rows, writer, rating_rows, tmdbOf, lookupFails, upserts, notDisc>>

\* An exception in the cache write: inside the try it is logged and the
\* session rolled back; outside it would leave the function.
Raised(s) ==
    [sess[s] EXCEPT !.pending = <<>>, !.flushed = <<>>, !.to_cache = <<>>,
                    !.pc = IF InTry(sess[s].kind) THEN AfterCache(sess[s].kind)
                           ELSE "returned",
                    !.caught = InTry(sess[s].kind),
                    !.raised = ~InTry(sess[s].kind)]
Released(s) == IF writer = s THEN NoWriter ELSE writer

\* One iteration of the cache loop: existing = await session.get(Movie, id)
\* (which first flushes what the session has pending), then session.add when
\* there is no row; enrich_movies_with_ratings also sets a missing imdb_id.
CacheItem(s) ==
    /\ sess[s].pc = "cache"
    /\ sess[s].to_cache # <<>>
    /\ sess[s].pending # <<>> => CanWrite(s)
    /\ LET m == Head(sess[s].to_cache)
           t1 == ApplyAll(View(s), sess[s].pending)
       IN IF ~FlushOK(View(s), sess[s].pending)
          THEN /\ sess' = [sess EXCEPT ![s] = Raised(s)]
               /\ writer' = Released(s)
          ELSE /\ sess' = [sess EXCEPT
                    ![s].flushed = @ \o sess[s].pending,
                    ![s].to_cache = Tail(@),
                    ![s].pending =
                        IF t1[m.tmdb_id] = <<>>
                        THEN <<[op |-> "ins", id |-> m.tmdb_id, imdb_id |-> m.imdb_id]>>
                        ELSE IF sess[s].kind = "enrich" /\ t1[m.tmdb_id][1] = NULL
                        THEN <<[op |-> "upd", id |-> m.tmdb_id, imdb_id |-> m.imdb_id]>>
                        ELSE <<>>]
               /\ writer' = IF sess[s].pending # <<>> THEN s ELSE writer
    /\ UNCHANGED <<movie_rows, rating_rows, tmdbOf, lookupFails, upserts, notDisc>>

\* await session.commit(): flush, then the transaction becomes visible.
Commit(s) ==
    /\ sess[s].pc = "cache"
    /\ sess[s].to_cache = <<>>
    /\ sess[s].pending # <<>> => CanWrite(s)
    /\ IF FlushOK(View(s), sess[s].pending)
       THEN /\ movie_rows' = ApplyAll(View(s), sess[s].pending)
            /\ sess' = [sess EXCEPT ![s].pending = <<>>, ![s].flushed = <<>>,
                                    ![s].pc = AfterCache(sess[s].kind)]
       ELSE /\ sess' = [sess EXCEPT ![s] = Raised(s)]
            /\ UNCHANGED movie_rows
    /\ writer' = Released(s)
    /\ UNCHANGED <<rating_rows, tmdbOf, lookupFails, upserts, notDisc>>

\* The end of discover_movies: the results in rating order, ratings injected.
DAssemble(s) ==
    /\ sess[s].pc = "assemble"
    /\ sess' = [sess EXCEPT ![s].out = Assemble(sess[s].ids, sess[s].final_results),
                            ![s].final_results = <<>>,
                            ![s].pc = "returned"]
    /\ UNCHANGED <<movie_rows, writer, rating_rows, tmdbOf, lookupFails, upserts, notDisc>>

\* ---- enrich_movies_with_ratings ----

\* A normalized movie as it is passed in; a key that is absent reads as NULL
\* (imdb_id) or 0 (imdb_rating, imdb_votes).
InputMovie(tid, iid) ==
    [tmdb_id |-> tid, imdb_id |-> iid, imdb_rating |-> 0, imdb_votes |-> 0]

\* The lists passed in: movies without an imdb_id, and one that carries it.
EnrichInputs ==
    {<<InputMovie(1, NULL)>>, <<InputMovie(2, NULL)>>,
     <<InputMovie(1, NULL), InputMovie(2, NULL)>>,
     <<InputMovie(1, "tt1"), InputMovie(2, NULL)>>}

\* The imdb_id the movies table gives for an id (the last row that has one).
KnownImdb(t, tid) ==
    LET have == {i \in 1..Len(t[tid]) : t[tid][i] # NULL}
    IN IF have = {} THEN NULL ELSE t[tid][CHOOSE i \in have : \A j \in have : j <= i]

\* The first statements: tmdb_to_imdb from the movies themselves, then from
\* the movies table for the rest, and still_missing.
EStart(s, ms) ==
    /\ sess[s].pc = "idle"
    /\ LET tids == [i \in 1..Len(ms) |-> ms[i].tmdb_id]
           carried == {ms[i].tmdb_id : i \in {j \in 1..Len(ms) : ms[j].imdb_id # NULL}}
           local == {k \in SeqToSet(tids) \ carried : KnownImdb(movie_rows, k) # NULL}
           loc == Filter(tids, carried \cup local)
           miss == Filter(tids, SeqToSet(tids) \ (carried \cup local))
       IN sess' = [sess EXCEPT ![s] =
            [IdleSession EXCEPT
               !.kind = "enrich",
               !.ids = tids,
               !.inp = ms,
               !.final_results = [i \in 1..Len(loc) |->
                       [tmdb_id |-> loc[i],
                        imdb_id |-> IF loc[i] \in carried
                                    THEN ms[CHOOSE j \in 1..Len(ms) :
                                               ms[j].tmdb_id = loc[i]].imdb_id
                                    ELSE KnownImdb(movie_rows, loc[i])]],
               !.tasks = miss,
               !.api_results = [i \in 1..Len(miss) |-> Unfetched],
               !.known = carried \cup local,
               !.looked = [k \in SeqToSet(miss) |-> 0],
               !.pc = IF miss = <<>> THEN "attach" ELSE "fetch"]]
    /\ UNCHANGED <<movie_rows, writer, rating_rows, tmdbOf, lookupFails, upserts, notDisc>>

\* movie["imdb_id"], movie["imdb_rating"], movie["imdb_votes"] with the
\* mapping x attached.
Attach(m, x) ==
    LET rated == x \in SeqToSet(rating_rows)
    IN [tmdb_id |-> m.tmdb_id, imdb_id |-> x,
        imdb_rating |-> IF rated THEN RatingOf(x) ELSE m.imdb_rating,
        imdb_votes |-> IF rated THEN VotesOf(x) ELSE m.imdb_votes]

\* A mutant of Enriched: without the test `tid in tmdb_to_imdb`, a movie
\* that has no mapping gets the first one there is.
EnrichedAny(m, fr) ==
    IF \E i \in 1..Len(fr) : fr[i].tmdb_id = m.tmdb_id
    THEN Attach(m, fr[CHOOSE i \in 1..Len(fr) : fr[i].tmdb_id = m.tmdb_id].imdb_id)
    ELSE IF fr # <<>> THEN Attach(m, fr[1].imdb_id) ELSE m

\* One step of the attach loop: if tid in tmdb_to_imdb the movie gets the
\* id and, when imdb_ratings has it, the rating; otherwise it is left alone.
Enriched(m, fr) ==
    IF \E i \in 1..Len(fr) : fr[i].tmdb_id = m.tmdb_id
    THEN Attach(m, fr[CHOOSE i \in 1..Len(fr) : fr[i].tmdb_id = m.tmdb_id].imdb_id)
    ELSE m

\* The end of enrich_movies_with_ratings: ratings attached to the movies.
EAttach(s) ==
    /\ sess[s].pc = "attach"
    /\ sess' = [sess EXCEPT
                  ![s].out = [i \in 1..Len(sess[s].inp) |->
                                Enriched(sess[s].inp[i], sess[s].final_results)],
                  ![s].final_results = <<>>,
                  ![s].pc = "returned"]
    /\ UNCHANGED <<movie_rows, writer, rating_rows, tmdbOf, lookupFails, upserts, notDisc>>

\* ---- the crawler's upsert: session.merge(Movie(...)); commit ----

\* The row with this id is replaced, or inserted when there is none.
CUpsert(k, y) ==
    /\ upserts < MaxUpserts
    /\ upserts' = upserts + 1
    /\ CanWrite(Crawler)
    /\ movie_rows' = ApplyOp(movie_rows,
                         [op |-> IF movie_rows[k] # <<>> THEN "upd" ELSE "ins",
                          id |-> k, imdb_id |-> y])
    /\ UNCHANGED <<writer, rating_rows, tmdbOf, sess, lookupFails, notDisc>>

\* The cache before any request, for a rating query result and a provider.
DiscStart(order, find) ==
    /\ movie_rows = [k \in TmdbIds |-> <<>>]
    /\ writer = NoWriter
    /\ rating_rows = order
    /\ tmdbOf = find
    /\ sess = [s \in Sessions |-> IdleSession]
    /\ lookupFails = 0
    /\ upserts = 0

\* No request and no rating rows.
DiscQuiet == DiscStart(<<>>, [x \in FewTconsts |-> 0])

\* The provider's answers: every tconst has a movie, or tt2 has none.
FindAnswers ==
    {[x \in FewTconsts |-> IF x = "tt1" THEN 1 ELSE k] : k \in {0, NumTmdb}}

\* The rating query results: the tconsts in any order, without repetition.
RatingOrders ==
    {o \in SeqsUpTo(FewTconsts, Cardinality(FewTconsts)) :
        \A i, j \in 1..Len(o) : i # j => o[i] # o[j]}

----------------------------------------------------------------------------
\* Filter fan-out (backend/services/filter_engine.py)

\* Bounds of the fan-out model.
PageSize == 2            \* items of a provider page and of a merged page, scaled down from 20
NumItems == 2            \* provider items 1..NumItems
MaxTotalPages == 2       \* the provider's total_pages

Regions == {<<>>, <<"US">>, <<"US", "GB">>}
Languages == {<<>>, <<"en">>, <<"en", "fr">>}
Limits == {1, 2 * PageSize + 1}

\* popularity of a provider item.
Popularity(id) == IF id = 2 THEN 9 ELSE 5
Item(id) == [tmdb_id |-> id, popularity |-> Popularity(id)]

\* The pages the provider may answer with: up to PageSize different items.
Pages ==
    {[i \in 1..Len(q) |-> Item(q[i])] :
        q \in {o \in SeqsUpTo(1..NumItems, PageSize) :
                  \A i, j \in 1..Len(o) : i # j => o[i] # o[j]}}

IsMulti(req) == Len(req.regions) > 1 \/ Len(req.languages) > 1

\* What discover() / get_all_results() pass on: the list when it has more
\* than one value, None otherwise.
MultiOnly(values) == IF Len(values) > 1 THEN values ELSE <<>>

RECURSIVE Product(_, _)
\* for region in watch_regions: for lang in languages: combinations.append(...)
Product(rs, ls) ==
    IF rs = <<>> THEN <<>>
    ELSE [j \in 1..Len(ls) |-> [watch_region |-> Head(rs), with_original_language |-> ls[j]]]
         \o Product(Tail(rs), ls)

\* combinations of _discover_multi_param / _get_all_results_multi_param, a
\* list that is None or empty counting as absent.
Combinations(wr, ls) ==
    IF wr # <<>> /\ ls # <<>> THEN Product(wr, ls)
    ELSE IF wr # <<>>
    THEN [i \in 1..Len(wr) |-> [watch_region |-> wr[i], with_original_language |-> NULL]]
    ELSE IF ls # <<>>
    THEN [j \in 1..Len(ls) |-> [watch_region |-> NULL, with_original_language |-> ls[j]]]
    ELSE <<>>

\* The one query of the single-value path: parse_filters(filters).
SingleQuery(req) ==
    <<[watch_region |-> IF req.regions = <<>> THEN NULL ELSE req.regions[1],
       with_original_language |-> IF req.languages = <<>> THEN NULL ELSE req.languages[1]]>>

\* pages_per_combo = max(1, limit // (20 * num_combinations) + 1)
PagesPerCombo(limit, n) == Max(1, (limit \div (PageSize * n)) + 1)

RECURSIVE Flatten(_)
\* for results in all_results: for item in results: ...
Flatten(lists) == IF lists = <<>> THEN <<>> ELSE Head(lists) \o Flatten(Tail(lists))

\* A mutant of Dedup: every item is kept.
DedupNone(items, seen_ids) == items

RECURSIVE Dedup(_, _)
\* if item["tmdb_id"] not in seen_ids: seen_ids.add(...); merged_results.append(item)
Dedup(items, seen_ids) ==
    IF items = <<>> THEN <<>>
    ELSE IF Head(items).tmdb_id \in seen_ids THEN Dedup(Tail(items), seen_ids)
    ELSE <<Head(items)>> \o Dedup(Tail(items), seen_ids \cup {Head(items).tmdb_id})

RECURSIVE InsertDesc(_, _)
InsertDesc(x, s) ==
    IF s = <<>> THEN <<x>>
    ELSE IF Head(s).popularity >= x.popularity THEN <<Head(s)>> \o InsertDesc(x, Tail(s))
    ELSE <<x>> \o s

RECURSIVE SortInto(_, _)
SortInto(acc, s) == IF s = <<>> THEN acc ELSE SortInto(InsertDesc(Head(s), acc), Tail(s))

\* _sort_results(results, "popularity.desc"): a stable sort, highest first.
SortResults(s) == SortInto(<<>>, s)

FanStart ==
    /\ fpc = "idle"
    /\ freq = [entry |-> "none", regions |-> <<>>, languages |-> <<>>, limit |-> 0]
    /\ combinations = <<>>
    /\ cpage = <<>>
    /\ all_results = <<>>
    /\ issued = <<>>
    /\ fout = <<>>

\* discover() or get_all_results() is called: the value lists are read from
\* the filters and the queries to issue are laid out.
FCall(entry, regions, languages, limit) ==
    /\ fpc = "idle"
    /\ LET req == [entry |-> entry, regions |-> regions, languages |-> languages,
                   limit |-> limit]
           cs == IF IsMulti(req)
                 THEN Combinations(MultiOnly(regions), MultiOnly(languages))
                 ELSE SingleQuery(req)
       IN /\ freq' = req
          /\ combinations' = cs
          /\ cpage' = [c \in 1..Len(cs) |-> 1]
          /\ all_results' = [c \in 1..Len(cs) |-> <<>>]
          /\ issued' = [c \in 1..Len(cs) |-> <<>>]
    /\ fpc' = "query"
    /\ UNCHANGED <<fout, notFan>>

\* A mutant of MorePages: the loops do not test the number of results
\* collected nor the page quota.
MorePagesUnbounded(req, n, results, pg, tp) ==
    /\ req.entry = "all"
    /\ pg < tp

\* Whether a combination asks for another page after a non-empty page:
\* never in discover(); in get_all_results() while fewer than limit results
\* are collected, the provider has more pages and (fan-out only) the page
\* quota of the combination is not used up.
MorePages(req, n, results, pg, tp) ==
    /\ req.entry = "all"
    /\ pg < tp
    /\ Len(results) < req.limit
    /\ IsMulti(req) => pg + 1 <= PagesPerCombo(req.limit, n)

\* One native discover query of a combination returns a page (or raises,
\* which ends the whole call: the gather is not shielded).
FQuery(c, items, tp, ok) ==
    /\ fpc = "query"
    /\ c \in 1..Len(combinations)
    /\ cpage[c] > 0
    /\ issued' = [issued EXCEPT ![c] = Append(@, [params |-> combinations[c],
                                                  page |-> cpage[c]])]
    /\ IF ~ok
       THEN /\ fpc' = "raised"
            /\ UNCHANGED <<cpage, all_results>>
       ELSE /\ fpc' = fpc
            /\ all_results' = [all_results EXCEPT ![c] = @ \o items]
            /\ cpage' = [cpage EXCEPT ![c] =
                           IF items # <<>> /\ MorePages(freq, Len(combinations),
                                                        all_results[c] \o items, @, tp)
                           THEN @ + 1 ELSE 0]
    /\ UNCHANGED <<freq, combinations, fout, notFan>>

\* Every query has returned: on the fan-out path the results are merged
\* without repeated tmdb_id, sorted and cut; otherwise they are passed on.
FMerge ==
    /\ fpc = "query"
    /\ \A c \in 1..Len(combinations) : cpage[c] = 0
    /\ LET cut == IF freq.entry = "all" THEN freq.limit ELSE PageSize
       IN fout' = IF IsMulti(freq)
                  THEN Take(SortResults(Dedup(Flatten(all_results), {})), cut)
                  ELSE IF freq.entry = "all" THEN Take(all_results[1], cut)
                  ELSE all_results[1]
    /\ fpc' = "done"
    /\ UNCHANGED <<freq, combinations, cpage, all_results, issued, notFan>>

----------------------------------------------------------------------------
\* Batch enrichment (tmdb_importer.py): the fetch calls of one page batch

\* Bounds of the enrichment model.
MaxWorkerArg == 2        \* largest --workers value
NumFetch == 3            \* most items of one page batch

Fetches == 1..NumFetch

\* asyncio.Semaphore: acquire() goes through when the value is positive.
HasPermitAlways(v) == TRUE
HasPermit(v) == v > 0

\* The calls that are inside `async with self.semaphore`, awaiting a provider
\* request.
InSection == {i \in Fetches : epc[i] \in {"details", "ids"}}

\* TMDBImporter(light_mode, max_workers=...): the semaphore starts with
\* max_workers permits.
EnrichStart ==
    /\ max_workers \in 0..MaxWorkerArg
    /\ light_mode \in BOOLEAN
    /\ semaphore = max_workers
    /\ epc = [i \in Fetches |-> "none"]

\* An importer with one worker that fetches nothing.
EnrichQuiet == EnrichStart /\ max_workers = 1 /\ light_mode = FALSE

\* process_page_batch: asyncio.gather(*[fetch_fn(item) for item in all_items])
\* starts one call per item; each reaches `async with self.semaphore`.
EGather(n) ==
    /\ \A i \in Fetches : epc[i] = "none"
    /\ epc' = [i \in Fetches |-> IF i <= n THEN "wait" ELSE "none"]
    /\ UNCHANGED <<max_workers, light_mode, semaphore, notEnr>>

\* `async with self.semaphore` is entered; the first request is the external
\* ids in light mode, the details otherwise.
EAcquire(i) ==
    /\ epc[i] = "wait"
    /\ HasPermit(semaphore)
    /\ semaphore' = semaphore - 1
    /\ epc' = [epc EXCEPT ![i] = IF light_mode THEN "ids" ELSE "details"]
    /\ UNCHANGED <<max_workers, light_mode, notEnr>>

\* Full mode: the details are in (or None) and the external ids are requested
\* separately.
EExternalIds(i) ==
    /\ epc[i] = "details"
    /\ epc' = [epc EXCEPT ![i] = "ids"]
    /\ UNCHANGED <<max_workers, light_mode, semaphore, notEnr>>

\* The call returns its record, or an exception is caught, logged and None
\* returned; leaving the `async with` block releases the permit.
EReturn(i, ok) ==
    /\ epc[i] \in {"details", "ids"}
    /\ semaphore' = semaphore + 1
    /\ epc' = [epc EXCEPT ![i] = IF ok THEN "data" ELSE "null"]
    /\ UNCHANGED <<max_workers, light_mode, notEnr>>

\* gather has every result: process_page_batch filters the None results and
\* returns.
ECollect ==
    /\ \E i \in Fetches : epc[i] # "none"
    /\ \A i \in Fetches : epc[i] \in {"none", "data", "null"}
    /\ epc' = [i \in Fetches |-> "none"]
    /\ UNCHANGED <<max_workers, light_mode, semaphore, notEnr>>

----------------------------------------------------------------------------
\* Enrichment of a mixed list (local_discover.py, routers/media.py):
\* enrich_movies_with_ratings on the normalized results of a multi search

\* Bounds of the mixed-list model.
NumMixedIds == 2         \* provider ids 1..NumMixedIds, used by movies and by TV shows
MaxMixedLen == 2         \* longest list passed in

MixedIds == 1..NumMixedIds
MediaTypes == {"movie", "tv"}
NoMovieRow == "none"

\* /{media_type}/{tmdb_id}/external_ids: the imdb_id of the title of that
\* type and provider id; TV show 2 has none.
ExternalId(tid, mtype) ==
    CASE mtype = "movie" /\ tid = 1 -> "tt1"
      [] mtype = "movie" -> "tt2"
      [] mtype = "tv" /\ tid = 1 -> "tt7"
      [] OTHER -> NULL

\* imdb_ratings: every tconst but tt2 is rated.
MixedRated(tc) == tc \in {"tt1", "tt7"}
MixedRating(tc) == IF tc = "tt1" THEN 71 ELSE 88

\* tmdb_service.normalize_result(item, item_type), with the imdb_id a record
\* may already carry; a key that is absent reads as NULL or 0.
MixedRecord(tid, mtype, carries) ==
    [tmdb_id |-> tid, media_type |-> mtype,
     imdb_id |-> IF carries THEN ExternalId(tid, mtype) ELSE NULL,
     imdb_rating |-> 0]

MixedRecords ==
    {MixedRecord(tid, mtype, c) : tid \in MixedIds, mtype \in MediaTypes, c \in BOOLEAN}

MixedLists == SeqsUpTo(MixedRecords, MaxMixedLen) \ {<<>>}

\* The movies tables the crawler leaves: per id no row, a row without
\* imdb_id, or a row with the movie's imdb_id.
MixedTables ==
    {t \in [MixedIds -> {NoMovieRow, NULL, "tt1", "tt2"}] :
        \A k \in MixedIds : t[k] \in {NoMovieRow, NULL, ExternalId(k, "movie")}}

MixedStart ==
    /\ mpc = "idle"
    /\ mrows \in MixedTables
    /\ minp = <<>>
    /\ tmdb_to_imdb = <<>>
    /\ new_mappings_to_cache = <<>>
    /\ mout = <<>>

\* An empty movies table and no call.
MixedQuiet == MixedStart /\ mrows = [k \in MixedIds |-> NoMovieRow]

\* A dict as a function on its keys: d[k] = v.
DictSet(d, k, v) == [x \in DOMAIN d \cup {k} |-> IF x = k THEN v ELSE d[x]]

RECURSIVE Carried(_, _)
\* for m in movies: if tid and iid: tmdb_to_imdb[tid] = iid
Carried(ms, d) ==
    IF ms = <<>> THEN d
    ELSE Carried(Tail(ms),
                 IF Head(ms).imdb_id # NULL
                 THEN DictSet(d, Head(ms).tmdb_id, Head(ms).imdb_id) ELSE d)

\* missing_tmdb_ids: the ids of all records that are not in the dict yet,
\* whatever their media type.
RowKey(ms, d) == {ms[i].tmdb_id : i \in 1..Len(ms)} \ DOMAIN d

RECURSIVE FromRows(_, _, _)
\* select(Movie.id, Movie.imdb_id).where(Movie.id.in_(missing_tmdb_ids)):
\* every row with an imdb_id enters the dict.
FromRows(keys, t, d) ==
    IF keys = {} THEN d
    ELSE LET k == CHOOSE x \in keys : TRUE
         IN FromRows(keys \ {k}, t,
                     IF t[k] \notin {NoMovieRow, NULL} THEN DictSet(d, k, t[k]) ELSE d)

\* The call starts: the dict from the records that carry an imdb_id, then
\* from the movies table.
MStart(ms) ==
    /\ mpc = "idle"
    /\ minp' = ms
    /\ mout' = <<>>
    /\ new_mappings_to_cache' = <<>>
    /\ LET d0 == Carried(ms, <<>>)
       IN tmdb_to_imdb' = FromRows(RowKey(ms, d0), mrows, d0)
    /\ mpc' = "fallback"
    /\ UNCHANGED <<mrows, notMix>>

\* m_type = next((m.get("media_type", "movie") for m in movies
\*                if m.get("tmdb_id") == tid), "movie")
TypeOfFirst(ms, tid) ==
    ms[CHOOSE i \in 1..Len(ms) :
          ms[i].tmdb_id = tid /\ \A j \in 1..(i - 1) : ms[j].tmdb_id # tid].media_type

\* still_missing, in list order (an id occurs once per record that has it).
StillMissing(ms, d) ==
    LET idx == {i \in 1..Len(ms) : ms[i].tmdb_id \notin DOMAIN d}
    IN [n \in 1..Cardinality(idx) |->
           ms[CHOOSE i \in idx : Cardinality({j \in idx : j <= i}) = n].tmdb_id]

RECURSIVE Resolve(_, _, _, _)
\* The loop over fetched_results: a lookup that gave an imdb_id enters the
\* dict and the list of mappings to cache; a failed lookup gives (tid, None).
Resolve(tids, ms, failed, acc) ==
    IF tids = <<>> THEN acc
    ELSE LET tid == Head(tids)
             iid == IF tid \in failed THEN NULL ELSE ExternalId(tid, TypeOfFirst(ms, tid))
         IN Resolve(Tail(tids), ms, failed,
                    IF iid = NULL THEN acc
                    ELSE [d |-> DictSet(acc.d, tid, iid),
                          c |-> Append(acc.c, [tmdb_id |-> tid, imdb_id |-> iid])])

\* The fallback: one live lookup per still missing id, gathered.
MFallback(failed) ==
    /\ mpc = "fallback"
    /\ LET r == Resolve(StillMissing(minp, tmdb_to_imdb), minp, failed,
                        [d |-> tmdb_to_imdb, c |-> <<>>])
       IN /\ tmdb_to_imdb' = r.d
          /\ new_mappings_to_cache' = r.c
    /\ mpc' = "cache"
    /\ UNCHANGED <<mrows, minp, mout, notMix>>

RECURSIVE CacheAll(_, _)
\* The cache loop: session.get(Movie, tid); a Movie row is added when there
\* is none, a row without imdb_id gets it; commit.
CacheAll(t, cs) ==
    IF cs = <<>> THEN t
    ELSE LET m == Head(cs)
         IN CacheAll(IF t[m.tmdb_id] \in {NoMovieRow, NULL}
                     THEN [t EXCEPT ![m.tmdb_id] = m.imdb_id] ELSE t,
                     Tail(cs))

\* The cache write commits, or raises and is rolled back.
MCache(ok) ==
    /\ mpc = "cache"
    /\ mrows' = IF ok THEN CacheAll(mrows, new_mappings_to_cache) ELSE mrows
    /\ new_mappings_to_cache' = <<>>
    /\ mpc' = "attach"
    /\ UNCHANGED <<minp, tmdb_to_imdb, mout, notMix>>

\* The attach loop: a record whose tmdb_id is in the dict gets the imdb_id
\* and, when imdb_ratings has it, the rating.
MAttach ==
    /\ mpc = "attach"
    /\ mout' = [i \in 1..Len(minp) |->
                  IF minp[i].tmdb_id \in DOMAIN tmdb_to_imdb
                  THEN LET x == tmdb_to_imdb[minp[i].tmdb_id]
                       IN [minp[i] EXCEPT
                             !.imdb_id = x,
                             !.imdb_rating = IF MixedRated(x) THEN MixedRating(x) ELSE @]
                  ELSE minp[i]]
    /\ mpc' = "returned"
    /\ UNCHANGED <<mrows, minp, tmdb_to_imdb, new_mappings_to_cache, notMix>>

\* The next request.
MAgain ==
    /\ mpc = "returned"
    /\ mpc' = "idle"
    /\ minp' = <<>>
    /\ mout' = <<>>
    /\ tmdb_to_imdb' = <<>>
    /\ UNCHANGED <<mrows, new_mappings_to_cache, notMix>>

----------------------------------------------------------------------------
\* Filter translation (filter_engine.py): FilterEngine.parse_filters

\* Bounds of the translation model.
MaxFilters == 2          \* longest filter list

\* A condition's operand: None, a scalar (passed through as it is), or a list.
NullValue == [kind |-> "null", v |-> <<>>]
Scalar(x) == [kind |-> "scalar", v |-> x]
ListOf(xs) == [kind |-> "list", v |-> xs]

\* The conditions of the model: fields with and without a direct mapping,
\* with and without a FILTER_MAPPING entry, and a condition without a field.
FilterFields == {"", "vote_average", "popularity", "with_genres", "certification"}
FilterOps == {"eq", "gte", "lte"}
FilterValues == {NullValue, Scalar("7"), ListOf(<<28, 12>>)}
Conditions ==
    {[field |-> f, operator |-> o, value |-> v] :
        f \in FilterFields, o \in FilterOps, v \in FilterValues}
FilterLists == SeqsUpTo(Conditions, MaxFilters)

\* direct_fields of _build_param_key
DirectFields ==
    {"with_genres", "without_genres", "with_keywords", "without_keywords",
     "with_cast", "with_crew", "with_people", "with_companies",
     "with_watch_providers", "watch_region", "with_watch_monetization_types",
     "with_original_language", "with_origin_country",
     "with_release_type", "with_status", "with_type", "with_networks",
     "certification", "certification_country",
     "sort_by", "year", "include_adult"}

\* _build_param_key(field, operator)
BuildParamKey(field, op) ==
    IF field \in DirectFields THEN field
    ELSE IF op \in {"gte", "lte"} THEN field \o "_" \o op
    ELSE field

\* self.FILTER_MAPPING.get(param_key, param_key): the entries that rename.
FilterMapping(k) ==
    CASE k = "vote_average_gte" -> "vote_average.gte"
      [] k = "vote_average_lte" -> "vote_average.lte"
      [] k = "vote_average" -> "vote_average.gte"
      [] k = "vote_count_gte" -> "vote_count.gte"
      [] k = "vote_count" -> "vote_count.gte"
      [] k = "release_date_gte" -> "primary_release_date.gte"
      [] k = "release_date_lte" -> "primary_release_date.lte"
      [] k = "year" -> "primary_release_year"
      [] k = "first_air_date_gte" -> "first_air_date.gte"
      [] k = "first_air_date_lte" -> "first_air_date.lte"
      [] k = "with_runtime_gte" -> "with_runtime.gte"
      [] k = "with_runtime_lte" -> "with_runtime.lte"
      [] k = "with_runtime" -> "with_runtime.gte"
      [] k = "certification_gte" -> "certification.gte"
      [] k = "certification_lte" -> "certification.lte"
      [] OTHER -> k

\* A mutant of Separator: lists are always joined with ",".
SeparatorComma(op) == ","

\* separator = "," if operator == "and" else "|"
Separator(op) == IF op = "and" THEN "," ELSE "|"

RECURSIVE Join(_, _)
\* separator.join(str(v) for v in value)
Join(sep, xs) ==
    IF xs = <<>> THEN ""
    ELSE IF Len(xs) = 1 THEN ToString(Head(xs))
    ELSE ToString(Head(xs)) \o sep \o Join(sep, Tail(xs))

\* The value stored for a non-null operand.
Rendered(value, op) ==
    IF value.kind = "list" THEN Join(Separator(op), value.v) ELSE value.v

RECURSIVE ParseFilters(_, _, _)
\* The loop of parse_filters over the conditions, params being the dict so far.
ParseFilters(fs, op, ps) ==
    IF fs = <<>> THEN ps
    ELSE LET f == Head(fs)
             param_key == BuildParamKey(f.field, f.operator)
         IN ParseFilters(Tail(fs), op,
                IF f.value.kind = "null" \/ param_key = "" THEN ps
                ELSE DictSet(ps, FilterMapping(param_key), Rendered(f.value, op)))

ParseStart ==
    /\ filters \in FilterLists
    /\ operator \in {"and", "or"}
    /\ params = <<>>
    /\ parsed = FALSE

\* No filter list to translate.
ParseQuiet == ParseStart /\ filters = <<>> /\ operator = "and"

\* params = parse_filters(filters, operator)
PParse ==
    /\ ~parsed
    /\ params' = ParseFilters(filters, operator, <<>>)
    /\ parsed' = TRUE
    /\ UNCHANGED <<filters, operator, notParse>>

----------------------------------------------------------------------------
\* Re-sort of the merged fan-out results (filter_engine.py): _sort_results

\* Bounds of the re-sort model.
NumMerged == 3           \* items 1..NumMerged, each at most once in a merged list

\* SORT_OPTIONS, an option "key.dir" written as its two parts.
SortKeys(mtype) ==
    IF mtype = "movie"
    THEN {"popularity", "release_date", "revenue", "primary_release_date",
          "original_title", "vote_average", "vote_count"}
    ELSE {"popularity", "first_air_date", "vote_average", "vote_count"}
SortOption(key, dir) == [key |-> key, dir |-> dir]
OptionName(o) == o.key \o "." \o o.dir
SortOptions(mtype) ==
    {OptionName(SortOption(k, d)) : k \in SortKeys(mtype), d \in {"desc", "asc"}}
AllOptions == {SortOption(k, d) : k \in SortKeys("movie") \cup SortKeys("tv"), d \in {"desc", "asc"}}
OptionOf(name) == CHOOSE o \in AllOptions : OptionName(o) = name

\* `word in sort_by` for the words _sort_results looks for: the key itself,
\* and "release_date" inside "primary_release_date".
Contains(name, word) ==
    \/ OptionOf(name).key = word
    \/ word = "release_date" /\ OptionOf(name).key = "primary_release_date"

\* sort_by.endswith(".desc")
EndsWithDesc(name) == OptionOf(name).dir = "desc"

\* What the provider knows of item id. Dates and titles are written as their
\* rank in ISO-date and in alphabetical order, which is how the strings compare.
Revenue(id) == CASE id = 1 -> 7 [] id = 2 -> 2 [] OTHER -> 9
ProviderItem(id) ==
    [id |-> id,
     popularity |-> Popularity(id),
     vote_average |-> CASE id = 1 -> 8 [] id = 2 -> 6 [] OTHER -> 7,
     vote_count |-> CASE id = 1 -> 10 [] id = 2 -> 30 [] OTHER -> 20,
     date |-> CASE id = 1 -> 3 [] id = 2 -> 1 [] OTHER -> 2,
     original_title |-> CASE id = 1 -> 2 [] id = 2 -> 3 [] OTHER -> 1,
     revenue |-> Revenue(id)]

\* tmdb.normalize_result(item, media_type): release_date is the movie's
\* release_date or the show's first_air_date; revenue is not kept.
NormalizeResult(item, mtype) ==
    [tmdb_id |-> item.id,
     media_type |-> mtype,
     original_title |-> item.original_title,
     release_date |-> item.date,
     vote_average |-> item.vote_average,
     vote_count |-> item.vote_count,
     popularity |-> item.popularity]

\* The merged, deduplicated lists: every order of every set of items.
MergedLists(mtype) ==
    {[i \in 1..Len(q) |-> NormalizeResult(ProviderItem(q[i]), mtype)] :
        q \in {o \in SeqsUpTo(1..NumMerged, NumMerged) :
                  \A i, j \in 1..Len(o) : i # j => o[i] # o[j]}}

\* The field _sort_results sorts on, NULL when no branch matches.
SortField(name) ==
    IF Contains(name, "popularity") THEN "popularity"
    ELSE IF Contains(name, "vote_average") THEN "vote_average"
    ELSE IF Contains(name, "release_date") \/ Contains(name, "primary_release_date")
    THEN "release_date"
    ELSE IF Contains(name, "vote_count") THEN "vote_count"
    ELSE NULL

RECURSIVE InsertBy(_, _, _, _)
\* x is placed behind the items that sort before it or equal to it.
InsertBy(x, s, field, reverse) ==
    IF s = <<>> THEN <<x>>
    ELSE IF (IF reverse THEN Head(s)[field] >= x[field] ELSE Head(s)[field] <= x[field])
    THEN <<Head(s)>> \o InsertBy(x, Tail(s), field, reverse)
    ELSE <<x>> \o s

RECURSIVE SortBy(_, _, _, _)
\* results.sort(key=lambda x: x.get(field, 0), reverse=reverse): a stable sort.
SortBy(acc, s, field, reverse) ==
    IF s = <<>> THEN acc
    ELSE SortBy(InsertBy(Head(s), acc, field, reverse), Tail(s), field, reverse)

\* _sort_results(results, sort_by); the list is left as it is when no branch
\* matches.
SortResultsBy(results, name) ==
    IF SortField(name) = NULL THEN results
    ELSE SortBy(<<>>, results, SortField(name), EndsWithDesc(name))

SortStart ==
    /\ media_type \in {"movie", "tv"}
    /\ sort_by \in SortOptions(media_type)
    /\ merged_results \in MergedLists(media_type)
    /\ resorted = FALSE

\* No list to sort.
SortQuiet ==
    /\ SortStart /\ media_type = "movie" /\ sort_by = "popularity.desc"
    /\ merged_results = <<>>

\* self._sort_results(merged_results, sort_by)
SSort ==
    /\ ~resorted
    /\ merged_results' = SortResultsBy(merged_results, sort_by)
    /\ resorted' = TRUE
    /\ UNCHANGED <<media_type, sort_by, notSort>>

----------------------------------------------------------------------------
\* Scheduled list refresh (backend/services/scheduler.py)

\* Bounds of the refresh model.
NumLists == 2            \* lists with auto_update, ids 1..NumLists
NumResultIds == 2        \* provider ids a result list is made of
MaxResults == 2          \* longest result list
UpdateInterval == 2      \* update_interval of every list, in hours

ListIds == 1..NumLists
NoList == "none"
\* get_all_results has not returned for the list; it has returned r.
NoResults == [returned |-> FALSE, results |-> <<>>]
Returned(r) == [returned |-> TRUE, results |-> r]

\* What get_all_results may return: a list without repeated tmdb_id.
ResultLists ==
    {o \in SeqsUpTo(1..NumResultIds, MaxResults) :
        \A i, j \in 1..Len(o) : i # j => o[i] # o[j]}

\* for i, item in enumerate(results): ListItem(tmdb_id=item["tmdb_id"], position=i)
NewItems(results) ==
    {[tmdb_id |-> results[i], position |-> i - 1] : i \in 1..Len(results)}

\* if media_list.last_updated: next_update = last_updated + interval;
\* if now < next_update: continue
IsDue(l) == ~(unow < last_updated[l] + UpdateInterval)

\* The scheduler between two ticks: every list materialized by an earlier
\* refresh, some of them due.
RefreshStart ==
    /\ upc = "idle"
    /\ unow = UpdateInterval
    /\ last_updated \in [ListIds -> {0, 1}]
    /\ list_items \in [ListIds -> {NewItems(r) : r \in ResultLists}]
    /\ todo = <<>>
    /\ media_list = NoList
    /\ session_new = {}
    /\ before = list_items
    /\ results_of = [l \in ListIds |-> NoResults]
    /\ due = {}
    /\ refreshed = {}
    /\ failed_list = NoList

\* No list is due and all are empty.
RefreshQuiet ==
    /\ RefreshStart
    /\ last_updated = [l \in ListIds |-> 1]
    /\ list_items = [l \in ListIds |-> {}]

\* update_all_lists() starts: `now` is read, the lists with auto_update are
\* selected.
UTick ==
    /\ upc = "idle"
    /\ upc' = "loop"
    /\ todo' = [i \in 1..NumLists |-> i]
    /\ due' = {l \in ListIds : IsDue(l)}
    /\ before' = list_items
    /\ UNCHANGED <<unow, last_updated, list_items, media_list, session_new, results_of, refreshed,
                   failed_list, notRefresh>>

\* for media_list in lists: a list that is not due is passed over; for a due
\* one update_list is entered; after the last list the tick returns.
UNext ==
    /\ upc = "loop"
    /\ IF todo = <<>>
       THEN /\ upc' = "done"
            /\ UNCHANGED <<todo, media_list>>
       ELSE /\ todo' = Tail(todo)
            /\ IF IsDue(Head(todo))
               THEN upc' = "fetch" /\ media_list' = Head(todo)
               ELSE upc' = "loop" /\ UNCHANGED media_list
    /\ UNCHANGED <<unow, last_updated, list_items, session_new, before, results_of, due, refreshed,
                   failed_list, notRefresh>>

\* update_list: get_all_results returns, and the delete and the new items are
\* put into the session's transaction; or it raises, and update_list rolls back
\* and re-raises into update_all_lists, whose handler logs and ends the tick.
UResults(results, ok) ==
    /\ upc = "fetch"
    /\ IF ok
       THEN /\ results_of' = [results_of EXCEPT ![media_list] = Returned(results)]
            /\ session_new' = NewItems(results)
            /\ upc' = "commit"
            /\ UNCHANGED <<failed_list, media_list>>
       ELSE /\ upc' = "failed"
            /\ failed_list' = media_list
            /\ media_list' = NoList
            /\ UNCHANGED <<results_of, session_new>>
    /\ UNCHANGED <<unow, last_updated, list_items, todo, before, due, refreshed, notRefresh>>

\* update_list: session.commit() replaces the list's rows and sets
\* last_updated; or it raises, the rollback leaves the rows as they were, and
\* the exception ends the tick.
UCommit(ok) ==
    /\ upc = "commit"
    /\ IF ok
       THEN /\ list_items' = [list_items EXCEPT ![media_list] = session_new]
            /\ last_updated' = [last_updated EXCEPT ![media_list] = unow]
            /\ refreshed' = refreshed \cup {media_list}
            /\ upc' = "loop"
            /\ UNCHANGED failed_list
       ELSE /\ upc' = "failed"
            /\ failed_list' = media_list
            /\ UNCHANGED <<list_items, last_updated, refreshed>>
    /\ session_new' = {}
    /\ media_list' = NoList
    /\ UNCHANGED <<unow, todo, before, results_of, due, notRefresh>>

----------------------------------------------------------------------------
\* Specifications

NextRL ==
    \/ \E c \in Callers : RLCall(c)
    \/ \E c \in Callers : RLLock(c)
    \/ \E c \in Callers : RLCheck(c)
    \/ \E c \in Callers : RLWake(c)
    \/ RLTick

InitRL == RLStart /\ ReqStart /\ CrawlQuiet /\ ImdbQuiet /\ DiscQuiet /\ FanStart /\ EnrichQuiet /\ MixedQuiet /\ ParseQuiet /\ SortQuiet /\ RefreshQuiet

SpecRL == InitRL /\ [][NextRL]_vars

NextRLLive ==
    \/ \E c \in Callers : RLCall(c)
    \/ \E c \in Callers : RLLock(c)
    \/ \E c \in Callers : RLCheck(c)
    \/ \E c \in Callers : RLWake(c)
    \/ RLElapse

\* The rate limiter with time advancing for ever. The event loop runs every
\* task that is ready (weak fairness of the lock body and of the timer),
\* asyncio.Lock wakes its waiters in FIFO order (strong fairness of entering
\* the lock), and the clock advances. Callers are free to call acquire()
\* again or not.
FairRL ==
    /\ WF_vars(RLElapse)
    /\ \A c \in Callers : /\ SF_vars(RLLock(c))
                          /\ WF_vars(RLCheck(c))
                          /\ WF_vars(RLWake(c))

SpecRLLive == InitRL /\ [][NextRLLive]_vars /\ FairRL

NextRequest ==
    \/ ClientEnter
    \/ \E c \in Callers : ReqCall(c)
    \/ \E c \in Callers, resp \in Responses, h \in Headers : ReqHttp(c, resp, h)
    \/ \E c \in Callers : ReqRetry(c)
    \/ \E c \in Callers : ReqReturn(c)
    \/ \E c \in Callers : RLLock(c)
    \/ \E c \in Callers : RLCheck(c)
    \/ \E c \in Callers : RLWake(c)
    \/ RLTick

\* Concurrent _request calls through one client and its rate limiter.
SpecRequest == InitRL /\ [][NextRequest]_vars


NextQueue ==
    \/ QStart
    \/ QFirst
    \/ QFirstFails
    \/ QDiscover
    \/ QDiscoverFails
    \/ QPut
    \/ QPageDone
    \/ QLoopEnd
    \/ QFinal
    \/ \E w \in Workers : WGet(w)
    \/ \E w \in Workers : WDetails(w)
    \/ \E w \in Workers : WNoDetails(w)
    \/ \E w \in Workers : WMerge(w)
    \/ \E w \in Workers : WMergeFails(w)
    \/ \E w \in Workers : WCancelled(w)
    \/ QReturn
    \/ Interrupt
    \/ ProviderChange

InitQueue == RLStart /\ ReqStart /\ CrawlStart /\ ImdbQuiet /\ DiscQuiet /\ FanStart /\ EnrichQuiet /\ MixedQuiet /\ ParseQuiet /\ SortQuiet /\ RefreshQuiet

NextBatch ==
    \/ \E m \in 1..MaxCeiling, b \in 1..MaxBatch : BStart(m, b)
    \/ \E failed \in SUBSET (1..MaxCeiling), lost \in SUBSET (1..(MaxCeiling * ItemsPerPage)) :
          BBatch(failed, lost)
    \/ BSave
    \/ BSaveFails
    \/ BCursor
    \/ BFinal

\* The batch-mode crawl, run, interrupted and restarted any number of times
\* on one database.
NextBatchRuns ==
    \/ NextBatch
    \/ Interrupt
    \/ ProviderChange

NextCrawl ==
    \/ NextQueue
    \/ \E m \in 1..MaxCeiling, b \in 1..MaxBatch : BStart(m, b)
    \/ NextBatch

InitCrawl == RLStart /\ ReqStart /\ CrawlStart /\ ImdbQuiet /\ DiscQuiet /\ FanStart /\ EnrichQuiet /\ MixedQuiet /\ ParseQuiet /\ SortQuiet /\ RefreshQuiet

\* Queue-mode and batch-mode crawls, run in any order on one database.
SpecCrawl == InitCrawl /\ [][NextCrawl]_vars

\* Batch-mode crawls only.
SpecBatch == InitCrawl /\ [][NextBatchRuns]_vars

\* The queue-mode crawl, run any number of times on one database.
SpecQueue == InitQueue /\ [][NextQueue]_vars

NextEnrich ==
    \/ \E n \in Fetches : EGather(n)
    \/ \E i \in Fetches : EAcquire(i)
    \/ \E i \in Fetches : EExternalIds(i)
    \/ \E i \in Fetches, ok \in BOOLEAN : EReturn(i, ok)
    \/ ECollect

InitEnrich ==
    /\ RLStart /\ ReqStart /\ CrawlQuiet /\ ImdbQuiet /\ DiscQuiet /\ FanStart /\ MixedQuiet /\ ParseQuiet /\ SortQuiet /\ RefreshQuiet
    /\ EnrichStart

\* The fetch calls of the page batches of one importer.
SpecEnrich == InitEnrich /\ [][NextEnrich]_vars

NextMixed ==
    \/ \E ms \in MixedLists : MStart(ms)
    \/ \E failed \in SUBSET MixedIds : MFallback(failed)
    \/ \E ok \in BOOLEAN : MCache(ok)
    \/ MAttach
    \/ MAgain

InitMixed ==
    /\ RLStart /\ ReqStart /\ CrawlQuiet /\ ImdbQuiet /\ DiscQuiet /\ FanStart /\ EnrichQuiet /\ ParseQuiet /\ SortQuiet /\ RefreshQuiet
    /\ MixedStart

\* enrich_movies_with_ratings called again and again on lists that mix movie
\* and TV records.
SpecMixed == InitMixed /\ [][NextMixed]_vars

NextParse == PParse

InitParse ==
    /\ RLStart /\ ReqStart /\ CrawlQuiet /\ ImdbQuiet /\ DiscQuiet /\ FanStart /\ EnrichQuiet /\ MixedQuiet /\ SortQuiet /\ RefreshQuiet
    /\ ParseStart

\* parse_filters applied to every filter list of the model.
SpecParse == InitParse /\ [][NextParse]_vars

NextSort == SSort

InitSort ==
    /\ RLStart /\ ReqStart /\ CrawlQuiet /\ ImdbQuiet /\ DiscQuiet /\ FanStart /\ EnrichQuiet /\ MixedQuiet /\ ParseQuiet /\ RefreshQuiet
    /\ SortStart

\* _sort_results applied to every merged list and every accepted sort option.
SpecSort == InitSort /\ [][NextSort]_vars

NextRefresh ==
    \/ UTick
    \/ UNext
    \/ \E results \in ResultLists, ok \in BOOLEAN : UResults(results, ok)
    \/ \E ok \in BOOLEAN : UCommit(ok)

InitRefresh ==
    /\ RLStart /\ ReqStart /\ CrawlQuiet /\ ImdbQuiet /\ DiscQuiet /\ FanStart /\ EnrichQuiet /\ MixedQuiet /\ ParseQuiet /\ SortQuiet
    /\ RefreshStart

\* One tick of update_all_lists over lists of which any may be due, with any
\* results and any failure of the provider or of the commit.
SpecRefresh == InitRefresh /\ [][NextRefresh]_vars

\* One step of the producer coroutine fetch_movies, and one step of worker w.
ProducerStep ==
    \/ QFirst \/ QFirstFails \/ QDiscover \/ QDiscoverFails \/ QPut
    \/ QPageDone \/ QLoopEnd \/ QFinal \/ QReturn

WorkerStep(w) ==
    \/ WGet(w) \/ WDetails(w) \/ WNoDetails(w) \/ WMerge(w) \/ WMergeFails(w)
    \/ WCancelled(w)

\* The event loop runs every task that is ready: a producer or a worker that
\* can take a step eventually takes one.  Starting a run, killing the process
\* and a change of the catalogue are never forced.
FairQueue ==
    /\ WF_vars(ProducerStep)
    /\ \A w \in Workers : WF_vars(WorkerStep(w))

SpecQueueFair == InitQueue /\ [][NextQueue]_vars /\ FairQueue

\* Queue-mode runs that end by themselves or by a cancellation or an exception
\* of the producer; the process is never killed.
NextShutdown ==
    \/ QStart
    \/ QFirst
    \/ QFirstFails
    \/ QDiscover
    \/ QDiscoverFails
    \/ QPut
    \/ QPageDone
    \/ QLoopEnd
    \/ QFinal
    \/ QCancelled
    \/ QRaises
    \/ \E w \in Workers : WGet(w)
    \/ \E w \in Workers : WDetails(w)
    \/ \E w \in Workers : WNoDetails(w)
    \/ \E w \in Workers : WMerge(w)
    \/ \E w \in Workers : WMergeFails(w)
    \/ \E w \in Workers : WCancelled(w)
    \/ QReturn

SpecShutdown == InitQueue /\ [][NextShutdown]_vars

NextImdb ==
    \/ \E got \in SUBSET DATASETS : PDownload(got)
    \/ \E name \in DATASETS : PRemove(name)
    \/ PBasics
    \/ \E name \in Dependents : PDependent(name)

InitImdb ==
    /\ RLStart /\ ReqStart /\ CrawlQuiet /\ DiscQuiet /\ FanStart /\ EnrichQuiet /\ MixedQuiet /\ ParseQuiet /\ SortQuiet /\ RefreshQuiet
    /\ \E b \in SeqsUpTo(BasicsLines(FewTconsts), MaxLines),
          r \in SeqsUpTo(DepLines("title.ratings"), MaxDepLines),
          a \in SeqsUpTo(DepLines("title.akas"), MaxDepLines),
          p \in SeqsUpTo(DepLines("title.principals"), MaxDepLines) :
            /\ Len(r) + Len(a) + Len(p) <= MaxDepLines
            /\ ImdbStart(MkContent(b, r, a, p))

\* The import pipeline, run any number of times on the same remote datasets.
SpecImdb == InitImdb /\ [][NextImdb]_vars

NextImdbRuns ==
    \/ NextImdb
    \/ \E b \in SeqsUpTo(BasicsLines(FewTconsts), MaxLines) : PPublish(b)

\* The import pipeline run any number of times while title.basics changes at
\* the publisher between the runs.
SpecImdbRuns == InitImdb /\ [][NextImdbRuns]_vars

InitBasics ==
    /\ RLStart /\ ReqStart /\ CrawlQuiet /\ DiscQuiet /\ FanStart /\ EnrichQuiet /\ MixedQuiet /\ ParseQuiet /\ SortQuiet /\ RefreshQuiet
    /\ \E b \in SeqsUpTo(BasicsLines(Tconsts), MaxBasicsLines) :
            ImdbStart(MkContent(b, <<>>, <<>>, <<>>))

\* The pipeline on longer title.basics files (the dependent datasets empty).
SpecBasics == InitBasics /\ [][NextImdb]_vars

NextDiscover ==
    \/ \E s \in Sessions : DStart(s)
    \/ \E s \in Sessions, ms \in EnrichInputs : EStart(s, ms)
    \/ \E s \in Sessions, i \in 1..NumTmdb, ok \in BOOLEAN : Fetched(s, i, ok)
    \/ \E s \in Sessions : Gather(s)
    \/ \E s \in Sessions : CacheItem(s)
    \/ \E s \in Sessions : Commit(s)
    \/ \E s \in Sessions : DAssemble(s)
    \/ \E s \in Sessions : EAttach(s)
    \/ \E k \in TmdbIds, y \in ImdbIdValues : CUpsert(k, y)

InitDiscover ==
    /\ RLStart /\ ReqStart /\ CrawlQuiet /\ ImdbQuiet /\ FanStart /\ EnrichQuiet /\ MixedQuiet /\ ParseQuiet /\ SortQuiet /\ RefreshQuiet
    /\ \E order \in RatingOrders, find \in FindAnswers : DiscStart(order, find)

\* Concurrent discover_movies and enrich_movies_with_ratings calls and the
\* crawler's upserts on one movies table.
SpecDiscover == InitDiscover /\ [][NextDiscover]_vars

NextFanout ==
    \/ \E entry \in {"discover", "all"}, regions \in Regions, languages \in Languages,
          limit \in Limits : FCall(entry, regions, languages, limit)
    \/ \E c \in 1..Len(combinations), items \in Pages, tp \in 1..MaxTotalPages,
          ok \in BOOLEAN : FQuery(c, items, tp, ok)
    \/ FMerge

InitFanout == RLStart /\ ReqStart /\ CrawlQuiet /\ ImdbQuiet /\ DiscQuiet /\ FanStart /\ EnrichQuiet /\ MixedQuiet /\ ParseQuiet /\ SortQuiet /\ RefreshQuiet

\* One discover() or get_all_results() call against any provider answers.
SpecFanout == InitFanout /\ [][NextFanout]_vars

\* The same call with a provider that answers every query it is sent and an
\* event loop that runs the coroutine whenever it can continue.
SpecFanoutFair == InitFanout /\ [][NextFanout]_vars /\ WF_vars(NextFanout)

----------------------------------------------------------------------------
\* Claims

\* The number of admitted acquire() calls whose timestamp lies in [a, a + T).
AdmittedIn(a) ==
    Cardinality({i \in 1..Len(admitted) :
                    admitted[i] >= a /\ admitted[i] < a + RATE_LIMIT_PERIOD})

\* C1: in every window of length period_seconds, at most requests_per_period
\* acquire() calls were admitted, for any callers and arrival pattern.
C1_WindowQuota ==
    \A a \in (0 - RATE_LIMIT_PERIOD)..MaxTime : AdmittedIn(a) <= RATE_LIMIT_REQUESTS

\* C1 witness: after more admissions than the quota, the current window is
\* full again and a caller is held back, sleeping.
C1_Witness ==
    /\ Len(admitted) > RATE_LIMIT_REQUESTS
    /\ AdmittedIn(now - RATE_LIMIT_PERIOD + 1) = RATE_LIMIT_REQUESTS
    /\ \E c \in Callers : rlpc[c] = "sleep"

\* C2: resume correctness of the queue-mode crawl: a restarted crawl resumes
\* at the persisted last_page + 1, and with a provider that answers every
\* request the same way, once the crawl is marked completed the persisted
\* movie identifiers are those of an uninterrupted crawl of pages 1..total.
C2_ResumeCorrect ==
    /\ (mode = "queue" /\ ppc = "first") => start_page = LastPage + 1
    /\ (mode = "idle" /\ cursor # NoRow /\ cursor.status = "completed" /\ faults = 0)
          => movies = ItemsOfPages(1, cursor.total_pages)

\* C3: the persisted last_page never decreases, and no crawl step requests a
\* discovery page whose number is <= the persisted last_page.
C3_CursorMonotonic ==
    [][LastPage' >= LastPage /\ \A q \in reqPages' : q > LastPage]_vars

\* The data lines of a dataset (the header is skipped), the phases that have
\* returned, and process_basics having returned normally in the current run.
DataLines(name) == Tail(content[name])
BasicsReturned ==
    "title.basics" \in ran /\ ~(ipc = "crashed" /\ ran = {"title.basics"})
AcceptedTitle(parts) == Len(parts) >= 9 /\ parts[2] \in VALID_TYPES
StoredTitle(parts) == [i \in 1..9 |-> IF parts[i] = "\\N" THEN NULL ELSE parts[i]]

\* C4: in one pipeline run, every row of imdb_ratings, imdb_akas and
\* imdb_principals written by that run has a leading identifier in the set
\* process_basics returned in that run, and that identifier belongs to a
\* title.basics line of a whitelisted type.
C4_ReferentialFilter ==
    \A name \in Dependents \cap ran :
        \A i \in 1..Len(tabs[TableOf(name)]) :
            LET tc == tabs[TableOf(name)][i][1] IN
            /\ tc \in valid_tconsts
            /\ \E k \in 1..Len(DataLines("title.basics")) :
                  /\ AcceptedTitle(DataLines("title.basics")[k])
                  /\ DataLines("title.basics")[k][1] = tc

\* A finished run that inserted a dependent row and dropped another one whose
\* identifier process_basics had not returned.
C4_Witness ==
    /\ ipc = "done"
    /\ \E name \in Dependents \cap ran :
          /\ tabs[TableOf(name)] # <<>>
          /\ \E k \in 1..Len(DataLines(name)) :
                DataLines(name)[k][1] \notin valid_tconsts

\* C9: a run of the pipeline that follows another run on the same input files
\* leaves the four tables as the earlier run left them.
C9_Idempotent ==
    (RunEnded /\ prevRun.done /\ prevRun.files = files)
        => (tabs = prevRun.tabs /\ exists = prevRun.exists)

\* A second complete run over all four files, with rows in the titles table
\* and in a dependent table.
C9_Witness ==
    /\ ipc = "done" /\ prevRun.done /\ prevRun.files = files
    /\ ran = DATASETS
    /\ tabs["imdb_titles"] # <<>>
    /\ \E name \in Dependents : tabs[TableOf(name)] # <<>>

\* C10: when process_basics has returned, imdb_titles holds exactly the data
\* lines with at least 9 fields and a whitelisted type, their first nine
\* fields with \N stored as NULL, each one once, and the returned set is the
\* set of identifiers in the table.
C10_TitleWhitelist ==
    BasicsReturned =>
        LET T == tabs["imdb_titles"]
            L == DataLines("title.basics")
            acc == {k \in 1..Len(L) : AcceptedTitle(L[k])}
        IN /\ \A k \in acc :
                Cardinality({j \in 1..Len(T) : T[j] = StoredTitle(L[k])})
                    = Cardinality({m \in acc : StoredTitle(L[m]) = StoredTitle(L[k])})
           /\ \A j \in 1..Len(T) : \E k \in acc : T[j] = StoredTitle(L[k])
           /\ Len(T) = Cardinality(acc)
           /\ valid_tconsts = {T[j][1] : j \in 1..Len(T)}

\* process_basics returned after a full batch was flushed in the loop and a
\* partial batch by the final flush, with a line rejected and a NULL stored.
C10_Witness ==
    /\ BasicsReturned
    /\ Len(tabs["imdb_titles"]) > FlushEvery
    /\ Len(tabs["imdb_titles"]) % FlushEvery # 0
    /\ \E k \in 1..Len(DataLines("title.basics")) :
          ~AcceptedTitle(DataLines("title.basics")[k])
    /\ \E j \in 1..Len(tabs["imdb_titles"]) : tabs["imdb_titles"][j][6] = NULL

RECURSIVE IsSubseq(_, _)
\* a can be obtained from b by deleting elements.
IsSubseq(a, b) ==
    IF a = <<>> THEN TRUE
    ELSE IF b = <<>> THEN FALSE
    ELSE IF Head(a) = Head(b) THEN IsSubseq(Tail(a), Tail(b))
    ELSE IsSubseq(a, Tail(b))
ReturnedDiscover(s) == sess[s].kind = "discover" /\ sess[s].pc = "returned"

\* C5: the results discover_movies returns are, by imdb_id, a subsequence of
\* the rating query's order, whichever came from the movies table and
\* whichever from a live lookup, and each item carries the rating and the
\* votes of its own imdb_id.
C5_OrderPreserved ==
    \A s \in Sessions :
        ReturnedDiscover(s) =>
            /\ IsSubseq([i \in 1..Len(sess[s].out) |-> sess[s].out[i].imdb_id],
                        rating_rows)
            /\ \A i \in 1..Len(sess[s].out) :
                  /\ sess[s].out[i].imdb_rating = RatingOf(sess[s].out[i].imdb_id)
                  /\ sess[s].out[i].imdb_votes = VotesOf(sess[s].out[i].imdb_id)

\* A call returned two items, the first resolved by a live lookup and the
\* second read from the movies table (collected in the opposite order).
C5_Witness ==
    \E s \in Sessions :
        /\ ReturnedDiscover(s)
        /\ Len(sess[s].out) = 2
        /\ \E r \in sess[s].resolved : r.imdb_id = sess[s].out[1].imdb_id
        /\ \A r \in sess[s].resolved : r.imdb_id # sess[s].out[2].imdb_id

\* C6: the movies table never holds two rows with the same id, and no
\* exception of the cache write reaches the caller of discover_movies or of
\* enrich_movies_with_ratings.
C6_OneRowPerId ==
    /\ \A k \in TmdbIds : Len(movie_rows[k]) <= 1
    /\ \A s \in Sessions : ~sess[s].raised

\* Two calls resolved the same id; one inserted the row, the other's insert
\* was refused by the storage layer and the call still returned.
C6_Witness ==
    \E s, t \in Sessions :
        /\ s # t
        /\ sess[s].caught /\ sess[s].pc = "returned"
        /\ \E r \in sess[s].resolved, q \in sess[t].resolved : r.tmdb_id = q.tmdb_id
        /\ \E k \in TmdbIds : Len(movie_rows[k]) = 1

\* C7: when discover_movies returns, every tconst it resolved by a live
\* lookup to a provider id has a movies row with that id and that imdb_id.
C7_WriteBack ==
    \A s \in Sessions :
        ReturnedDiscover(s) =>
            \A r \in sess[s].resolved :
                \E i \in 1..Len(movie_rows[r.tmdb_id]) :
                    movie_rows[r.tmdb_id][i] = r.imdb_id

\* The values a combination ranges over for one field: the list when it has
\* more than one value, otherwise the single absent value.
FanValues(values) == IF Len(values) > 1 THEN values ELSE <<NULL>>
FanDone == fpc = "done" /\ IsMulti(freq)

\* C8: when watch_region and/or language carry more than one value, the call
\* has exactly one combination per element of the product of the multi-valued
\* lists, each combination is queried (its first page once, no page twice,
\* once in all in discover()), and the merged results hold no tmdb_id twice.
C8_FanOut ==
    FanDone =>
        LET R == FanValues(freq.regions)
            L == FanValues(freq.languages)
        IN /\ Len(combinations) = Len(R) * Len(L)
           /\ \A i \in 1..Len(R), j \in 1..Len(L) :
                 combinations[(i - 1) * Len(L) + j]
                     = [watch_region |-> R[i], with_original_language |-> L[j]]
           /\ \A c \in 1..Len(combinations) :
                 /\ Len(issued[c]) >= 1
                 /\ freq.entry = "discover" => Len(issued[c]) = 1
                 /\ \A q \in 1..Len(issued[c]) :
                       issued[c][q].params = combinations[c] /\ issued[c][q].page = q
           /\ \A a, b \in 1..Len(fout) : a # b => fout[a].tmdb_id # fout[b].tmdb_id

\* Two regions and one language: two combinations, whose queries both
\* returned the same item, which is returned once.
C8_Witness ==
    /\ FanDone
    /\ Len(freq.regions) = 2 /\ Len(freq.languages) = 1
    /\ Len(combinations) = 2
    /\ \E a \in 1..Len(all_results[1]), b \in 1..Len(all_results[2]) :
          all_results[1][a].tmdb_id = all_results[2][b].tmdb_id
    /\ fout # <<>>

\* C11: when the title.basics download fails, the pipeline returns with no
\* phase run and every imdb_* table as it was when the run started; when the
\* run completes, exactly the phases whose file was obtained have run (a
\* failed optional download skips that phase only).
C11_DownloadFailure ==
    /\ (ipc # "idle" /\ "title.basics" \notin files) => ipc = "aborted"
    /\ ipc = "aborted" =>
          /\ ran = {}
          /\ tabs = (IF prevRun.done THEN prevRun.tabs ELSE EmptyTabs)
          /\ exists = (IF prevRun.done THEN prevRun.exists ELSE {})
    /\ ipc = "done" => ran = files

\* A run aborted for want of title.basics, with the titles of an earlier run
\* still in the table.
C11_Witness ==
    /\ ipc = "aborted"
    /\ "title.basics" \notin files
    /\ tabs["imdb_titles"] # <<>>

\* A data line with all the fields its phase reads and an identifier the
\* phase accepts, and a phase's input free of repeated primary keys.
WellFormed(name, parts) ==
    IF name = "title.basics" THEN AcceptedTitle(parts)
    ELSE Len(parts) >= NCols(name) /\ parts[1] \in valid_tconsts
NoRepeatedKey(name) ==
    HasPrimaryKey(name) =>
        \A i, j \in 1..Len(DataLines(name)) :
            (i # j /\ WellFormed(name, DataLines(name)[i])
                   /\ WellFormed(name, DataLines(name)[j]))
                => DataLines(name)[i][1] # DataLines(name)[j][1]

\* C12: in every phase a line with too few fields is skipped and the phase
\* imports all the well-formed lines: once a phase has run (on input without
\* repeated primary keys) each well-formed line has its row in the table.
C12_MalformedNotFatal ==
    \A name \in ran :
        NoRepeatedKey(name) =>
            \A k \in 1..Len(DataLines(name)) :
                WellFormed(name, DataLines(name)[k]) =>
                    \E i \in 1..Len(tabs[TableOf(name)]) :
                        tabs[TableOf(name)][i] = RowOf(name, DataLines(name)[k])

\* C13 (the retry bound, as stated): one top-level _request makes at most one
\* retry after a 429, so it ends after at most two HTTP attempts however often
\* the provider answers 429. The source retries by calling itself, and the
\* nested call retries again.
C13_SingleRetry ==
    \A c \in Callers : rq[c].retries <= 1 /\ rq[c].attempts <= 2

\* C14: a _request made with an initialised session never raises for a
\* provider or transport failure: after a 404, any other status that is not
\* 200, an unusable 429 or an exception during the HTTP call it returns None,
\* the same value in every case.
C14_NeverRaises ==
    \A c \in Callers :
        (rq[c].pc = "done" /\ rq[c].attempts > 0) =>
            /\ rq[c].result # "raised"
            /\ rq[c].last # "200" => rq[c].result = "none"
            /\ rq[c].last = "200" => rq[c].result = "data"

C14_Witness ==
    /\ \E c \in Callers :
          rq[c].pc = "done" /\ rq[c].last = "exception" /\ rq[c].result = "none"
    /\ \E c \in Callers :
          rq[c].pc = "done" /\ rq[c].last = "404" /\ rq[c].result = "none"

\* C15: every HTTP attempt, each retry after a 429 included, starts only
\* after its own acquire() has returned, so the attempts started never exceed
\* the slots admitted; a call on a client without a session raises without
\* an attempt and without a slot.
C15_AttemptAfterAcquire ==
    /\ http <= Len(admitted)
    /\ \A c \in Callers : rq[c].pc = "acquire" => http < Len(admitted) \/ rlpc[c] # "idle"
    /\ \A c \in Callers : rq[c].result = "raised" => rq[c].attempts = 0
    /\ ~session => (admitted = <<>> /\ http = 0 /\ \A c \in Callers : rlpc[c] = "idle")

C15_Witness ==
    /\ http >= 2
    /\ \E c \in Callers : rq[c].retries >= 1 /\ rq[c].pc = "acquire" /\ rlpc[c] = "sleep"
    /\ \E c \in Callers : rq[c].result = "raised"

\* C16 (as stated): with time advancing, every caller blocked in acquire()
\* is eventually admitted, whatever the other callers do. The limiter keeps
\* no queue of waiters: a sleeper wakes after the slot has become free, and a
\* caller arriving in between takes it.
C16_NoStarvation ==
    \A c \in Callers : (rlpc[c] # "idle") ~> (rlpc[c] = "idle")

\* C17: enrich_movies_with_ratings returns the records it was given, in the
\* same order, and never raises; a record for which no foreign identifier
\* was found (not carried, not in the movies table, lookup failed or empty)
\* comes back exactly as it went in, and a record for which one was found
\* carries it whatever happened to the lookups of the others.
C17_PartialSuccess ==
    \A s \in Sessions :
        (sess[s].kind = "enrich" /\ sess[s].pc = "returned") =>
            /\ ~sess[s].raised
            /\ Len(sess[s].out) = Len(sess[s].inp)
            /\ \A i \in 1..Len(sess[s].inp) :
                  LET m == sess[s].inp[i]
                      found == \/ m.tmdb_id \in sess[s].known
                               \/ \E r \in sess[s].resolved : r.tmdb_id = m.tmdb_id
                  IN /\ sess[s].out[i].tmdb_id = m.tmdb_id
                     /\ ~found => sess[s].out[i] = m
                     /\ found => sess[s].out[i].imdb_id # NULL

\* A call returned two records: the lookup of one failed although the
\* provider knows it, and the other was resolved by its lookup and rated.
C17_Witness ==
    \E s \in Sessions :
        /\ sess[s].kind = "enrich" /\ sess[s].pc = "returned" /\ Len(sess[s].out) = 2
        /\ \E i, j \in 1..2 :
              /\ sess[s].out[i] = sess[s].inp[i]
              /\ sess[s].inp[i].imdb_id = NULL
              /\ sess[s].inp[i].tmdb_id \in DOMAIN sess[s].looked
              /\ Lookup("enrich", sess[s].inp[i].tmdb_id).imdb_id # NULL
              /\ \E r \in sess[s].resolved : r.tmdb_id = sess[s].inp[j].tmdb_id
              /\ sess[s].out[j].imdb_rating # 0

\* C18: discover_movies makes no live lookup for an identifier that had a
\* movies row with that imdb_id when the table was queried, and exactly one
\* for each identifier that had none.
C18_CallEconomy ==
    \A s \in Sessions :
        sess[s].kind = "discover" =>
            /\ \A x \in sess[s].known : x \notin DOMAIN sess[s].looked
            /\ \A x \in DOMAIN sess[s].looked : sess[s].looked[x] <= 1
            /\ sess[s].pc \notin {"idle", "fetch"} =>
                  \A x \in SeqToSet(sess[s].ids) \ sess[s].known :
                      x \in DOMAIN sess[s].looked /\ sess[s].looked[x] = 1

C18_Witness ==
    \E s \in Sessions :
        /\ sess[s].kind = "discover" /\ sess[s].pc = "returned"
        /\ sess[s].known # {}
        /\ \E x \in DOMAIN sess[s].looked : sess[s].looked[x] = 1

\* The number of queries one loop of get_all_results() can issue: on the
\* single-query path every page but the last adds at least one result to
\* fewer than limit, on the fan-out path the page quota of the combination.
QueryBound ==
    IF IsMulti(freq) THEN PagesPerCombo(freq.limit, Len(combinations)) ELSE freq.limit

\* C19: get_all_results() terminates whatever the provider answers, on the
\* single-query path and on the fan-out path, after a bounded number of
\* queries, and returns at most `limit` items.
C19_Terminates ==
    /\ [](freq.entry = "all" =>
             /\ \A c \in 1..Len(combinations) : Len(issued[c]) <= QueryBound
             /\ Len(fout) <= freq.limit)
    /\ (fpc = "query" /\ freq.entry = "all") ~> (fpc \in {"done", "raised"})

\* A fan-out call whose combinations used their whole page quota, and whose
\* merged results were cut to the limit.
C19_Witness ==
    /\ fpc = "done" /\ freq.entry = "all" /\ IsMulti(freq)
    /\ \E c \in 1..Len(combinations) : Len(issued[c]) = QueryBound
    /\ Len(Dedup(Flatten(all_results), {})) > freq.limit
    /\ Len(fout) = freq.limit

\* The discovery page an item is listed on.
PageOf(r) == (r - 1) \div ItemsPerPage + 1

InFlight == {w \in Workers : witem[w] # NoItem}

\* C22 (as stated): each dequeued item is acknowledged at most once, so the
\* queue's count of unfinished tasks never falls below the items that are
\* still queued or held by a worker, and join() cannot return before them.
C22_AckOnce ==
    mode = "queue" => unfinished >= Len(queue) + Cardinality(InFlight)

\* C26 (as stated): while the queue-mode producer is at page p, p minus the
\* persisted last_page is at most one checkpoint interval, whatever the
\* provider answers.
C26_BoundedReprocessing ==
    (mode = "queue" /\ ppc \in {"loop", "put"} /\ page <= total_pages) =>
        page - LastPage <= CheckpointEvery

\* C27 (as stated): when last_page = P is persisted, the items of every page
\* <= P have been processed; with a provider and a storage that never fail,
\* processed means committed.
C27_CursorBehindWork ==
    faults = 0 => \A q \in 1..LastPage : SeqToSet(PageItems(q)) \subseteq movies

\* C23: whenever fetch_movies returns (after normal completion, a failed
\* start, an exception or a cancellation of the producer), every worker task
\* has been cancelled and has ended, so no worker code, and no database write
\* of a worker, runs after the return; the table does not change between runs.
C23_ShutdownClean ==
    [][/\ (mode = "queue" /\ mode' = "idle") =>
            \A w \in Workers : wpc[w] \in {"done", "dead"} /\ witem[w] = NoItem
       /\ (mode = "idle" /\ mode' = "idle") => movies' = movies]_vars

\* A run was cancelled in the middle of its page range with items still in
\* the queue, and is about to return with every worker ended.
C23_Witness ==
    /\ mode = "queue" /\ ppc = "finally"
    /\ \A w \in Workers : wpc[w] \in {"done", "dead"}
    /\ page <= total_pages
    /\ queue # <<>>

\* C21 (as stated): in a queue-mode crawl every dequeued item is acknowledged
\* in every outcome and the workers stay alive, so a producer that waits in
\* put or in join eventually gets on.
C21_QueueDrains ==
    /\ [](mode = "queue" => \A w \in Workers : wpc[w] # "dead")
    /\ (mode = "queue" /\ ppc = "put" /\ pending # <<>>) ~>
            (mode = "idle" \/ ppc # "put" \/ pending = <<>>)
    /\ (mode = "queue" /\ ppc = "join") ~> (mode = "idle" \/ ppc # "join")

\* C24 (as stated): when the fetch or the write of one item fails, the worker
\* drops only that item, stays in its loop and goes on to the next item, and
\* what was committed before stays committed.
C24_FailureIsolated ==
    [][\A w \in Workers :
          (WNoDetails(w) \/ WMergeFails(w)) =>
              /\ wpc'[w] = "get"
              /\ movies' = movies
              /\ \A v \in Workers \ {w} : wpc'[v] = wpc[v] /\ witem'[v] = witem[v]]_vars

\* C25 (as stated): within one run of the queue-mode crawl the discovery page
\* numbers the producer requests are strictly increasing: every page it
\* requests is above every page it has requested before in this run.
C25_PagesIncreasing ==
    [][mode = "queue" => \A q \in reqPages' : \A r \in requested : r < q]_vars

\* C28: the queue never holds more than 2 * BATCH_SIZE items; while it is full
\* and the producer has an item to put, the producer neither puts nor requests
\* a discovery page; the items fetched and not yet processed (waiting to be
\* put, queued, or held by a worker) number at most the queue capacity plus
\* the worker count plus one page.
C28_Backpressure ==
    /\ [](mode = "queue" =>
            /\ Len(queue) <= 2 * BATCH_SIZE
            /\ Len(pending) <= ItemsPerPage
            /\ Len(pending) + Len(queue) + Cardinality(InFlight)
                   <= 2 * BATCH_SIZE + NUM_WORKERS + ItemsPerPage)
    /\ [][(mode = "queue" /\ Len(queue) = 2 * BATCH_SIZE /\ pending # <<>>) =>
            /\ reqPages' = {}
            /\ pending' = pending \/ mode' = "idle"
            /\ Len(queue') <= Len(queue)]_vars

\* The queue is full, the producer waits in put with an item of the next page
\* and every worker holds an item.
C28_Witness ==
    /\ mode = "queue" /\ ppc = "put"
    /\ Len(queue) = 2 * BATCH_SIZE
    /\ pending # <<>>
    /\ InFlight = Workers

\* C29: the prune-check-record sequence of acquire() runs under the lock as
\* one uninterrupted step: the recorded times change only in the step of the
\* caller that holds the lock, which releases it in the same step; the lock
\* is held exactly by a caller inside the block, and never by one that sleeps.
C29_LockDiscipline ==
    /\ [](\A c \in Callers :
            /\ rlpc[c] = "sleep" => lock # c
            /\ lock = c <=> rlpc[c] = "check")
    /\ [][request_times' # request_times =>
            /\ lock \in Callers
            /\ rlpc[lock] = "check"
            /\ lock' = NoCaller]_vars

\* One caller sleeps for a slot while another one is inside the lock.
C29_Witness ==
    \E c, d \in Callers : c # d /\ rlpc[c] = "sleep" /\ lock = d /\ rlpc[d] = "check"

\* C30: in batch mode the number of fetch_movie_data / fetch_tv_data calls
\* that are inside their enrichment section is at most max_workers at every
\* moment.
C30_EnrichmentBound ==
    /\ Cardinality(InSection) <= max_workers
    /\ semaphore >= 0

\* max_workers calls are inside the section and a further call waits for a
\* permit.
C30_Witness ==
    /\ max_workers >= 2
    /\ Cardinality(InSection) = max_workers
    /\ \E i \in Fetches : epc[i] = "wait"

\* C31 (as stated): once a movies row has a non-null imdb_id, no later
\* operation (a crawler upsert, a discovery or enrichment cache write) sets
\* it to null or to another value.
C31_MappingKept ==
    [][\A k \in TmdbIds : \A i \in 1..Len(movie_rows[k]) :
          movie_rows[k][i] # NULL =>
              /\ i <= Len(movie_rows'[k])
              /\ movie_rows'[k][i] = movie_rows[k][i]]_vars

\* C32 (as stated): enrich_movies_with_ratings looks up only records that
\* carry no imdb_id and have no movies row with one, and when its cache write
\* is over every mapping it discovered is in the movies table (a row with a
\* non-null imdb_id), so that the next call finds it there.
C32_EnrichEconomy ==
    [][\A s \in Sessions :
          sess'[s].kind = "enrich" =>
              /\ \A k \in sess'[s].known : k \notin DOMAIN sess'[s].looked
              /\ (sess[s].pc \in {"fetch", "cache"} /\ sess'[s].pc = "attach") =>
                    \A r \in sess'[s].resolved :
                        KnownImdb(movie_rows', r.tmdb_id) # NULL]_vars


\* C33 (as stated): on a list mixing movie and TV records, a record gets an
\* imdb_id (and the rating that goes with it) only from the title of its own
\* media type and provider id, and the movies table only ever holds the
\* imdb_id of the movie with that id, never that of a TV show.
C33_OwnIdentity ==
    /\ mpc = "returned" =>
          \A i \in 1..Len(mout) :
              mout[i].imdb_id \in {NULL, ExternalId(minp[i].tmdb_id, minp[i].media_type)}
    /\ \A k \in MixedIds : mrows[k] \in {NoMovieRow, NULL, ExternalId(k, "movie")}


\* The non-null conditions of the call, and those whose key is not empty (a
\* condition without a field has one only under gte/lte: "_gte", "_lte").
NonNull == {i \in 1..Len(filters) : filters[i].value.kind # "null"}
Keyed == {i \in NonNull : BuildParamKey(filters[i].field, filters[i].operator) # ""}
NativeKey(i) == FilterMapping(BuildParamKey(filters[i].field, filters[i].operator))
LastWith(k) == CHOOSE i \in Keyed : NativeKey(i) = k /\ \A j \in Keyed : NativeKey(j) = k => j <= i

C36_ConstraintsKept ==
    IsMulti(freq) =>
        \A c \in 1..Len(issued) : \A q \in 1..Len(issued[c]) :
            LET sent == issued[c][q].params
            IN /\ Len(freq.regions) > 1 => sent.watch_region \in SeqToSet(freq.regions)
               /\ Len(freq.languages) > 1
                     => sent.with_original_language \in SeqToSet(freq.languages)
               /\ Len(freq.regions) = 1 => sent.watch_region = freq.regions[1]
               /\ Len(freq.languages) = 1
                     => sent.with_original_language = freq.languages[1]

\* The value the requested sort key has for a returned record.
RequestedKey(r, key) ==
    CASE key \in {"release_date", "primary_release_date", "first_air_date"} -> r.release_date
      [] key = "revenue" -> Revenue(r.tmdb_id)
      [] OTHER -> r[key]

\* C35: the re-sorted merged list is ordered by the requested sort key in the
\* requested direction, for every option of SORT_OPTIONS for the media type.
C35_Resorted ==
    resorted =>
        LET o == OptionOf(sort_by)
        IN \A i, j \in 1..Len(merged_results) :
              i < j =>
                 IF o.dir = "desc"
                 THEN RequestedKey(merged_results[i], o.key) >= RequestedKey(merged_results[j], o.key)
                 ELSE RequestedKey(merged_results[i], o.key) <= RequestedKey(merged_results[j], o.key)

\* The identifiers of a table: the leading column of its rows.
IdsOf(t) == {tabs[t][i][1] : i \in 1..Len(tabs[t])}

\* C37: after a completed run, whichever runs came before it and whichever
\* optional phases it skipped, every identifier in imdb_ratings, imdb_akas and
\* imdb_principals is in the current imdb_titles.
C37_Referential ==
    ipc = "done" =>
        \A name \in Dependents : IdsOf(TableOf(name)) \subseteq IdsOf("imdb_titles")

\* The rows of list l are exactly the results get_all_results gave for it,
\* numbered 0..n-1 in result order.
ExactlyNew(l) ==
    /\ results_of[l].returned
    /\ Cardinality(list_items[l]) = Len(results_of[l].results)
    /\ \A i \in 1..Len(results_of[l].results) :
          [tmdb_id |-> results_of[l].results[i], position |-> i - 1] \in list_items[l]

\* After update_list has returned or raised, a list holds its new results or
\* the items it had before.
AtomicReplace ==
    upc \in {"loop", "done", "failed"} =>
        \A l \in ListIds : list_items[l] = before[l] \/ ExactlyNew(l)

\* C38: a list's items are either exactly the new results with positions
\* 0..n-1 in result order or exactly the items it had before; and when the
\* tick is over, every due list other than one whose refresh failed has been
\* refreshed.
C38_AtomicRefresh ==
    /\ AtomicReplace
    /\ upc \in {"done", "failed"} =>
          \A l \in due : l \in refreshed \/ l = failed_list

====
